---- MODULE Spec2Model ----
(***************************************************************************)
(* A model of subweight-core (src/core/src/lib.rs): the comparison of      *)
(* Substrate weight formulas between two versions.                         *)
(*                                                                         *)
(* Every operation of lib.rs is a pure function of its arguments, so each  *)
(* one is an operator, and an action of a specification applies it to      *)
(* arguments drawn from bounded sets: `call' holds the operation and its   *)
(* arguments, `ret' what it returned.  The one sequential protocol, reset, *)
(* is modelled step by step with `pc' and the log `git' of the commands it *)
(* has run.                                                                *)
(*                                                                         *)
(* Encodings.  Option<T> is a sequence of length 0 (None) or 1 (Some).     *)
(* Result<T, String> is a record [ok, v, err].  A term is a tuple whose    *)
(* first element is the variant.  A String that the code only compares or  *)
(* sorts is a string of the model, ordered by its place in NameOrder.      *)
(***************************************************************************)
EXTENDS Integers, Sequences, FiniteSets, TLC

VARIABLES
    call,   \* the operation invoked last and its arguments
    ret,    \* what that invocation returned
    ret2,   \* what a second invocation on the same arguments returned
    pc,     \* reset: the statement the call is at
    git     \* reset: the git commands run so far, with their outcomes

vars == <<call, ret, ret2, pc, git>>

----------------------------------------------------------------------------
(* Option<T>                                                               *)

None == <<>>

Some(x) == <<x>>

IsSome(o) == Len(o) = 1

IsNone(o) == Len(o) = 0

Unwrap(o) == o[1]

\* Option::or
OptOr(a, b) == IF IsSome(a) THEN a ELSE b

(* Result<T, String>: the error is kept as a record of the words and the   *)
(* values format! puts into the message.                                   *)
NoErr == [kind |-> "none", component |-> "", pallet |-> "", extrinsic |-> "", n |-> 0]

Ok(x) == [ok |-> TRUE, v |-> x, err |-> NoErr]

Err(e) == [ok |-> FALSE, v |-> 0, err |-> e]

Idle == [fn |-> "idle"]

----------------------------------------------------------------------------
(* Names.  Strings are compared by the code only through Ord (BTreeSet,    *)
(* BTreeMap), which is the byte order: upper case before lower case.       *)

STORAGE_READ_VAR == "READ"

STORAGE_WRITE_VAR == "WRITE"

\* The component names the model draws from, in byte order.
AllComponents ==
    <<"a", "b", "c", "d", "e", "f", "g", "h", "i", "j", "k", "l", "m", "n", "o", "p", "q">>

\* Pallet (file) and extrinsic names, in byte order.
AllIdents == <<"balances", "staking", "system", "transfer", "vote">>

NameOrder == <<STORAGE_READ_VAR, STORAGE_WRITE_VAR>> \o AllComponents \o AllIdents

NameRank(s) == CHOOSE i \in 1..Len(NameOrder) : NameOrder[i] = s

\* str::cmp as Less
NameLess(s, t) == NameRank(s) < NameRank(t)

Range(f) == {f[i] : i \in DOMAIN f}

\* The elements of a set of names as the sequence a BTreeSet iterates them in.
RECURSIVE SortedNames(_)
SortedNames(S) ==
    IF S = {} THEN <<>>
    ELSE LET m == CHOOSE x \in S : \A y \in S : NameRank(x) <= NameRank(y)
         IN  <<m>> \o SortedNames(S \ {m})

----------------------------------------------------------------------------
(* ComponentRange and the optional range maps of the two extrinsics.       *)

ComponentRange(lo, hi) == [min |-> lo, max |-> hi]

\* HashMap<String, ComponentRange>: every name to its entry, if it has one.
NoRanges == [c \in Range(AllComponents) |-> None]

\* HashMap::get
MapGet(m, component) == m[component]

\* ra.as_ref().and_then(|r| r.get(component))
RangeOf(r, component) == IF IsSome(r) THEN MapGet(Unwrap(r), component) ELSE None

----------------------------------------------------------------------------
(* ComponentInstanceStrategy, MinOrMax and CompareMethod.                  *)

Strategy(exact, min_or_max) == [exact |-> exact, min_or_max |-> min_or_max]

exact_min == Strategy(TRUE, "Min")

exact_max == Strategy(TRUE, "Max")

guess_min == Strategy(FALSE, "Min")

guess_max == Strategy(FALSE, "Max")

Strategies == {exact_min, exact_max, guess_min, guess_max}

CompareMethods == {"Base", "ExactWorst", "GuessWorst", "Asymptotic"}

\* CompareMethod::min
MethodMin(method) ==
    CASE method \in {"Base", "GuessWorst"} -> guess_min
      [] method = "ExactWorst" -> exact_min
      [] method = "Asymptotic" -> exact_max

\* CompareMethod::max
MethodMax(method) ==
    CASE method = "Base" -> guess_min
      [] method = "GuessWorst" -> guess_max
      [] method \in {"ExactWorst", "Asymptotic"} -> exact_max

Min2(x, y) == IF x <= y THEN x ELSE y

Max2(x, y) == IF x >= y THEN x ELSE y

\* The value instance_component guesses for the maximum of an undeclared range.
GUESS_MAX == 100

\* The value instance_component guesses for the minimum of an undeclared range.
GUESS_MIN == 0

DifferentRangesErr(component, pallet, extrinsic) ==
    [kind |-> "DifferentRanges", component |-> component, pallet |-> pallet,
     extrinsic |-> extrinsic, n |-> 0]

NoRangeErr(component, pallet, extrinsic) ==
    [kind |-> "NoRange", component |-> component, pallet |-> pallet,
     extrinsic |-> extrinsic, n |-> 0]

\* Mutant of instance_component: the guess for a missing range ignores exact.
instance_component_guess_always(component, ra, rb, strategy, pallet, extrinsic) ==
    LET a == RangeOf(ra, component)
        b == RangeOf(rb, component)
        pick(r) == IF strategy.min_or_max = "Min" THEN r.min ELSE r.max
    IN  CASE IsSome(a) /\ IsNone(b) -> Ok(pick(Unwrap(a)))
          [] IsNone(a) /\ IsSome(b) -> Ok(pick(Unwrap(b)))
          [] IsSome(a) /\ IsSome(b) /\ Unwrap(a) = Unwrap(b) -> Ok(pick(Unwrap(a)))
          [] IsSome(a) /\ IsSome(b) /\ Unwrap(a) # Unwrap(b) ->
                IF strategy.exact THEN Err(DifferentRangesErr(component, pallet, extrinsic))
                ELSE IF strategy.min_or_max = "Min"
                     THEN Ok(Min2(Unwrap(a).min, Unwrap(b).min))
                     ELSE Ok(Max2(Unwrap(a).max, Unwrap(b).max))
          [] IsNone(a) /\ IsNone(b) ->
                IF strategy.min_or_max = "Min" THEN Ok(GUESS_MIN) ELSE Ok(GUESS_MAX)

\* instance_component: one component's value under a strategy.
instance_component(component, ra, rb, strategy, pallet, extrinsic) ==
    LET a == RangeOf(ra, component)
        b == RangeOf(rb, component)
        pick(r) == IF strategy.min_or_max = "Min" THEN r.min ELSE r.max
    IN  CASE IsSome(a) /\ IsNone(b) -> Ok(pick(Unwrap(a)))
          [] IsNone(a) /\ IsSome(b) -> Ok(pick(Unwrap(b)))
          [] IsSome(a) /\ IsSome(b) /\ Unwrap(a) = Unwrap(b) -> Ok(pick(Unwrap(a)))
          [] IsSome(a) /\ IsSome(b) /\ Unwrap(a) # Unwrap(b) ->
                IF strategy.exact THEN Err(DifferentRangesErr(component, pallet, extrinsic))
                ELSE IF strategy.min_or_max = "Min"
                     THEN Ok(Min2(Unwrap(a).min, Unwrap(b).min))
                     ELSE Ok(Max2(Unwrap(a).max, Unwrap(b).max))
          [] IsNone(a) /\ IsNone(b) ->
                IF strategy.exact THEN Err(NoRangeErr(component, pallet, extrinsic))
                ELSE IF strategy.min_or_max = "Min" THEN Ok(GUESS_MIN) ELSE Ok(GUESS_MAX)

----------------------------------------------------------------------------
(* SimpleTerm (module term): Scalar(u128), Var(name), Add(l, r), Mul(l, r).*)

Scalar(x) == <<"Scalar", x>>

Var(name) == <<"Var", name>>

Add(l, r) == <<"Add", l, r>>

Mul(l, r) == <<"Mul", l, r>>

(* SimpleScope (module scope): the variables bound so far, each to a       *)
(* scalar.  The two storage weights are bound under the names READ and     *)
(* WRITE.                                                                  *)
EmptyScope == [n \in {} |-> 0]

\* Scope::put_var
put_var(scope, name, value) ==
    [n \in DOMAIN scope \cup {name} |-> IF n = name THEN value ELSE scope[n]]

\* Scope::with_storage_weights
with_storage_weights(scope, read, write) ==
    put_var(put_var(scope, STORAGE_READ_VAR, read), STORAGE_WRITE_VAR, write)

\* Scope::is_empty
scope_is_empty(scope) == DOMAIN scope = {}

\* The bindings of a scope in key order, as a BTreeMap iterates them.
ScopeEntries(scope) ==
    LET keys == SortedNames(DOMAIN scope)
    IN  [i \in 1..Len(keys) |-> <<NameRank(keys[i]), scope[keys[i]]>>]

\* Ord for Scope, as derived: the bindings compared lexicographically as Less.
RECURSIVE EntriesLess(_, _, _)
EntriesLess(e1, e2, i) ==
    CASE i > Len(e2) -> FALSE
      [] i > Len(e1) -> TRUE
      [] e1[i][1] # e2[i][1] -> e1[i][1] < e2[i][1]
      [] e1[i][2] # e2[i][2] -> e1[i][2] < e2[i][2]
      [] OTHER -> EntriesLess(e1, e2, i + 1)

ScopeLess(s1, s2) == EntriesLess(ScopeEntries(s1), ScopeEntries(s2), 1)

\* Term::free_vars: the variables of the term that the scope does not bind.
RECURSIVE free_vars(_, _)
free_vars(term, scope) ==
    CASE term[1] = "Scalar" -> {}
      [] term[1] = "Var" -> IF term[2] \in DOMAIN scope THEN {} ELSE {term[2]}
      [] term[1] \in {"Add", "Mul"} -> free_vars(term[2], scope) \cup free_vars(term[3], scope)

VarNotFoundErr(name) ==
    [kind |-> "VarNotFound", component |-> name, pallet |-> "", extrinsic |-> "", n |-> 0]

\* Term::eval: fails when a variable of the term is unbound.
RECURSIVE eval(_, _)
eval(term, scope) ==
    CASE term[1] = "Scalar" -> Ok(term[2])
      [] term[1] = "Var" ->
            IF term[2] \in DOMAIN scope THEN Ok(scope[term[2]])
            ELSE Err(VarNotFoundErr(term[2]))
      [] term[1] \in {"Add", "Mul"} ->
            LET l == eval(term[2], scope)
                r == eval(term[3], scope)
            IN  IF ~l.ok THEN l
                ELSE IF ~r.ok THEN r
                ELSE IF term[1] = "Add" THEN Ok(l.v + r.v) ELSE Ok(l.v * r.v)

\* Term::substitute: every occurrence of the variable replaced.
RECURSIVE substitute(_, _, _)
substitute(term, name, with) ==
    CASE term[1] = "Scalar" -> term
      [] term[1] = "Var" -> IF term[2] = name THEN with ELSE term
      [] term[1] \in {"Add", "Mul"} ->
            <<term[1], substitute(term[2], name, with), substitute(term[3], name, with)>>

OptMax(a, b) ==
    CASE IsNone(a) -> b
      [] IsNone(b) -> a
      [] OTHER -> Some(Max2(Unwrap(a), Unwrap(b)))

\* Term::find_largest_factor: the largest constant that multiplies the variable.
RECURSIVE find_largest_factor(_, _)
find_largest_factor(term, name) ==
    CASE term[1] \in {"Scalar", "Var"} -> None
      [] term[1] = "Mul" /\ term[2] = Var(name) /\ term[3][1] = "Scalar" -> Some(term[3][2])
      [] term[1] = "Mul" /\ term[3] = Var(name) /\ term[2][1] = "Scalar" -> Some(term[2][2])
      [] OTHER -> OptMax(find_largest_factor(term[2], name), find_largest_factor(term[3], name))

----------------------------------------------------------------------------
(* Extrinsics.  A SimpleExtrinsic is [pallet, name, term, comp_ranges]; a  *)
(* ChromaticExtrinsic holds a term per dimension, and simplify projects it.*)

Dimensions == {"Time", "Proof"}

Extrinsic(pallet, name, term, comp_ranges) ==
    [pallet |-> pallet, name |-> name, term |-> term, comp_ranges |-> comp_ranges]

\* ChromaticTerm::simplify: the projection of a term onto one dimension.
simplify(term, unit) == IF unit = "Time" THEN term.time ELSE term.proof

\* ChromaticExtrinsic::map_term with simplify
map_term_simplify(e, unit) == Extrinsic(e.pallet, e.name, simplify(e.term, unit), e.comp_ranges)

----------------------------------------------------------------------------
(* Percent (f64).  A finite percent is the exact quotient 100 * num / den  *)
(* with den > 0; the two other values the code can produce are NaN (0 / 0) *)
(* and +infinity (x / 0).  Rounding is not modelled.                       *)

PctNaN == [t |-> "nan", num |-> 0, den |-> 1]

PctInf == [t |-> "inf", num |-> 0, den |-> 1]

Pct(num, den) == [t |-> "fin", num |-> num, den |-> den]

\* percent: 100.0 * (new as f64 / old as f64) - 100.0
percent(old, new) ==
    CASE old = 0 /\ new = 0 -> PctNaN
      [] old = 0 /\ new # 0 -> PctInf
      [] OTHER -> Pct(new - old, old)

Abs(x) == IF x < 0 THEN -x ELSE x

\* floor(10^digits * a / d) for a >= 0 and d > 0, one decimal digit at a time.
RECURSIVE ScaleDiv(_, _, _, _)
ScaleDiv(q, r, d, digits) ==
    IF digits = 0 THEN q
    ELSE ScaleDiv(10 * q + ((10 * r) \div d), (10 * r) % d, d, digits - 1)

(* (percent * 1000.0) as i128: truncated towards zero, NaN to 0, +infinity *)
(* to i128::MAX.  The integer is kept as <<hi, lo>>, standing for          *)
(* hi * 100000 + lo with both of one sign and |lo| < 100000.               *)
ScaledPercent(p) ==
    CASE p.t = "nan" -> <<0, 0>>
      [] p.t = "inf" -> <<2147483647, 0>>
      [] OTHER ->
            LET a == Abs(p.num)
                hi == a \div p.den
                lo == ScaleDiv(0, a % p.den, p.den, 5)
            IN  IF p.num < 0 THEN <<-hi, -lo>> ELSE <<hi, lo>>

\* i128::cmp of two scaled percents, as -1, 0 or 1.
ScaledCmp(x, y) ==
    CASE x[1] < y[1] -> -1
      [] x[1] > y[1] -> 1
      [] x[2] < y[2] -> -1
      [] x[2] > y[2] -> 1
      [] OTHER -> 0

----------------------------------------------------------------------------
(* RelativeChange, TermChange and compare_terms.                           *)

\* Mutant of ChangeRank: Removed before Added.
ChangeRank_removed_first(change) ==
    CASE change = "Unchanged" -> 0
      [] change = "Removed" -> 1
      [] change = "Added" -> 2
      [] change = "Changed" -> 3

\* The derived Ord of RelativeChange: the place of the variant.
ChangeRank(change) ==
    CASE change = "Unchanged" -> 0
      [] change = "Added" -> 1
      [] change = "Removed" -> 2
      [] change = "Changed" -> 3

PanicErr(what) == [kind |-> what, component |-> "", pallet |-> "", extrinsic |-> "", n |-> 0]

\* A panic (unreachable!, assert!, unwrap, expect) ends the whole run.
Panic(what) == [ok |-> FALSE, v |-> 0, err |-> PanicErr(what), panic |-> TRUE]

IsPanic(r) == "panic" \in DOMAIN r

\* Mutant of RelativeChange_new: an old value of 0 counts as no old value.
RelativeChange_new_zero_is_added(old_v, new_v) ==
    CASE IsSome(old_v) /\ IsSome(new_v) -> IF old_v[1] = 0 THEN "Added" ELSE "Changed"
      [] IsNone(old_v) /\ IsSome(new_v) -> "Added"
      [] IsSome(old_v) /\ IsNone(new_v) -> "Removed"
      [] OTHER -> "unreachable"

\* RelativeChange::new
RelativeChange_new(old_v, new_v) ==
    CASE IsSome(old_v) /\ IsSome(new_v) -> "Changed"
      [] IsNone(old_v) /\ IsSome(new_v) -> "Added"
      [] IsSome(old_v) /\ IsNone(new_v) -> "Removed"
      [] OTHER -> "unreachable"

\* Option::unwrap_or_default of a number
UnwrapOrZero(o) == IF IsSome(o) THEN Unwrap(o) ELSE 0

TermChange(old, old_v, new, new_v, scope, p, change, method) ==
    [old |-> old, old_v |-> old_v, new |-> new, new_v |-> new_v, scope |-> scope,
     percent |-> p, change |-> change, method |-> method]

\* Mutant of compare_terms: the classification ignores the equality of the terms.
compare_terms_no_fast_path(old, new, method, scope) ==
    LET eo == IF IsSome(old) THEN eval(Unwrap(old), scope) ELSE Ok(0)
        en == IF IsSome(new) THEN eval(Unwrap(new), scope) ELSE Ok(0)
        old_v == IF IsSome(old) THEN Some(eo.v) ELSE None
        new_v == IF IsSome(new) THEN Some(en.v) ELSE None
    IN  IF ~eo.ok THEN eo
        ELSE IF ~en.ok THEN en
        ELSE Ok(TermChange(old, old_v, new, new_v, scope,
                           percent(UnwrapOrZero(old_v), UnwrapOrZero(new_v)),
                           RelativeChange_new(old_v, new_v), method))

\* compare_terms: both terms evaluated at one scope and classified.
compare_terms(old, new, method, scope) ==
    LET eo == IF IsSome(old) THEN eval(Unwrap(old), scope) ELSE Ok(0)
        en == IF IsSome(new) THEN eval(Unwrap(new), scope) ELSE Ok(0)
        old_v == IF IsSome(old) THEN Some(eo.v) ELSE None
        new_v == IF IsSome(new) THEN Some(en.v) ELSE None
    IN  IF ~eo.ok THEN eo
        ELSE IF ~en.ok THEN en
        ELSE Ok(TermChange(old, old_v, new, new_v, scope,
                           percent(UnwrapOrZero(old_v), UnwrapOrZero(new_v)),
                           IF old = new THEN "Unchanged"
                           ELSE RelativeChange_new(old_v, new_v), method))

\* TermChange::cmp, as -1 (Less), 0 (Equal) or 1 (Greater).
TermChange_cmp(a, b) ==
    LET ca == ChangeRank(a.change)
        cb == ChangeRank(b.change)
        pa == ScaledPercent(a.percent)
        pb == ScaledPercent(b.percent)
    IN  CASE ca < cb -> -1
          [] ca > cb -> 1
          [] OTHER -> ScaledCmp(pa, pb)

----------------------------------------------------------------------------
(* extend_scoped_components and compare_extrinsics.                        *)

\* The limit on the free components of one formula pair.
MAX_COMPONENTS == 16

(* HashSet<String> iterates in an order fixed by its hasher's random keys. *)
(* IterOrder is the order under one draw of the keys: the seed read in the *)
(* factorial number system picks each next element among those left.      *)
RECURSIVE PickOrder(_, _)
PickOrder(left, seed) ==
    IF Len(left) = 0 THEN <<>>
    ELSE LET i == (seed % Len(left)) + 1
             rest == [j \in 1..(Len(left) - 1) |-> IF j < i THEN left[j] ELSE left[j + 1]]
         IN  <<left[i]>> \o PickOrder(rest, seed \div Len(left))

IterOrder(S, seed) == PickOrder(SortedNames(S), seed)

TooManyErr(pallet, extrinsic, n) ==
    [kind |-> "TooMany", component |-> "", pallet |-> pallet, extrinsic |-> extrinsic, n |-> n]

\* 1 << n
Pow2(n) == 2 ^ n

\* Mutant of BindCorner: the corner's bit is read one place too high.
RECURSIVE BindCorner_wrong_bit(_, _, _, _, _, _)
BindCorner_wrong_bit(scope, frees, lowest, highest, i, c) ==
    IF c > Len(frees) THEN scope
    ELSE LET value == IF (i \div Pow2(c)) % 2 = 0 THEN lowest[c] ELSE highest[c]
         IN  BindCorner_wrong_bit(put_var(scope, frees[c], value), frees, lowest, highest,
                                  i, c + 1)

\* The inner loop of extend_scoped_components: corner i, components c.. bound.
RECURSIVE BindCorner(_, _, _, _, _, _)
BindCorner(scope, frees, lowest, highest, i, c) ==
    IF c > Len(frees) THEN scope
    ELSE LET value == IF (i \div Pow2(c - 1)) % 2 = 0 THEN lowest[c] ELSE highest[c]
         IN  BindCorner(put_var(scope, frees[c], value), frees, lowest, highest, i, c + 1)

\* BTreeSet::into_iter().collect(): the scopes of a set in ascending order.
RECURSIVE SortedScopes(_)
SortedScopes(S) ==
    IF S = {} THEN <<>>
    ELSE LET m == CHOOSE x \in S : \A y \in S : ~ScopeLess(y, x)
         IN  <<m>> \o SortedScopes(S \ {m})

\* A Result with the work done to reach it: the instance_component calls made.
Resolved(r, n) == [ok |-> r.ok, v |-> r.v, err |-> r.err, resolved |-> n]

\* The range maps of an optional extrinsic: comp_ranges.unwrap_or_default().
RangesOf(e) ==
    IF IsNone(e) THEN None
    ELSE IF IsSome(Unwrap(e).comp_ranges) THEN Unwrap(e).comp_ranges
    ELSE Some(NoRanges)

FreeVarsOf(e, scope) == IF IsSome(e) THEN free_vars(Unwrap(e).term, scope) ELSE {}

\* Mutant of TooManyComponents: the limit is checked with >=.
TooManyComponents_ge(k) == k >= MAX_COMPONENTS

\* if frees.len() > 16
TooManyComponents(k) == k > MAX_COMPONENTS

(* extend_scoped_components: the corner scopes of a formula pair.  `seed'  *)
(* is the draw of the hasher keys of the HashSet `frees'.  The loop that   *)
(* resolves the components returns at the first one that fails.            *)
extend_scoped_components(a, b, method, scope, seed) ==
    LET frees == IterOrder(FreeVarsOf(a, scope) \cup FreeVarsOf(b, scope), seed)
        k == Len(frees)
        ra == RangesOf(a)
        rb == RangesOf(b)
        e == Unwrap(OptOr(a, b))
        low(c) == instance_component(frees[c], ra, rb, MethodMin(method), e.pallet, e.name)
        high(c) == instance_component(frees[c], ra, rb, MethodMax(method), e.pallet, e.name)
        bad == {c \in 1..k : ~low(c).ok \/ ~high(c).ok}
    IN  IF TooManyComponents(k) THEN Resolved(Err(TooManyErr(e.pallet, e.name, k)), 0)
        ELSE IF bad # {}
        THEN LET c == CHOOSE x \in bad : \A y \in bad : x <= y
             IN  IF ~low(c).ok THEN Resolved(low(c), 2 * c - 1) ELSE Resolved(high(c), 2 * c)
        ELSE LET lowest == [c \in 1..k |-> low(c).v]
                 highest == [c \in 1..k |-> high(c).v]
                 corners == {BindCorner(scope, frees, lowest, highest, i, 1) :
                                i \in 0..(Pow2(k) - 1)}
             IN  Resolved(Ok(SortedScopes({s \in corners : ~scope_is_empty(s)})), 2 * k)

\* The storage weights of the time dimension.
READ_WEIGHT == 25000000

WRITE_WEIGHT == 100000000

\* The base scope of compare_extrinsics for a dimension.
BaseScope(unit) ==
    IF unit = "Time" THEN with_storage_weights(EmptyScope, READ_WEIGHT, WRITE_WEIGHT)
    ELSE with_storage_weights(EmptyScope, 0, 0)

\* For the proof dimension READ and WRITE are substituted by 0 in the term.
DimensionTerm(e, unit) ==
    IF unit = "Time" THEN e
    ELSE Extrinsic(e.pallet, e.name,
                   substitute(substitute(e.term, STORAGE_READ_VAR, Scalar(0)),
                              STORAGE_WRITE_VAR, Scalar(0)),
                   e.comp_ranges)

OptDimensionTerm(o, unit) == IF IsSome(o) THEN Some(DimensionTerm(Unwrap(o), unit)) ELSE None

OptTerm(o) == IF IsSome(o) THEN Some(Unwrap(o).term) ELSE None

\* Iterator::max_by: the last of the greatest elements.
RECURSIVE max_by_cmp(_, _, _)
max_by_cmp(results, best, i) ==
    IF i > Len(results) THEN best
    ELSE max_by_cmp(results, IF TermChange_cmp(best, results[i]) = 1 THEN best ELSE results[i],
                    i + 1)

\* A Result with the work done to reach it: ranges resolved and terms evaluated.
Worked(r, resolved, evaluated) ==
    IF IsPanic(r) THEN r
    ELSE [ok |-> r.ok, v |-> r.v, err |-> r.err, resolved |-> resolved, evaluated |-> evaluated]

NumPresent(old, new) == (IF IsSome(old) THEN 1 ELSE 0) + (IF IsSome(new) THEN 1 ELSE 0)

(* The loop of compare_extrinsics over the scopes: the free-variable check *)
(* and compare_terms at each one, ending at the first that fails.          *)
RECURSIVE CompareCorners(_, _, _, _, _, _)
CompareCorners(old, new, method, scopes, i, results) ==
    IF i > Len(scopes) THEN Ok(results)
    ELSE IF FreeVarsOf(old, scopes[i]) # {} THEN Panic("free_variable")
    ELSE IF FreeVarsOf(new, scopes[i]) # {} THEN Panic("free_variable")
    ELSE LET r == compare_terms(OptTerm(old), OptTerm(new), method, scopes[i])
         IN  IF ~r.ok THEN r
             ELSE CompareCorners(old, new, method, scopes, i + 1, Append(results, r.v))

\* Mutant of PickResult: the first result is returned whatever the classifications.
PickResult_first(results) ==
    IF Len(results) = 0 THEN Panic("unwrap_none") ELSE Ok(results[1])

\* The result compare_extrinsics returns among those of the scopes.
PickResult(results) ==
    LET all_increase_or_decrease ==
            \A i \in 1..Len(results) : results[i].change \in {"Changed", "Unchanged"}
        all_added_or_removed ==
            \A i \in 1..Len(results) : results[i].change \in {"Added", "Removed"}
    IN  IF all_added_or_removed
        THEN IF Len(results) = 0 THEN Panic("unwrap_none") ELSE Ok(results[1])
        ELSE IF all_increase_or_decrease THEN Ok(max_by_cmp(results, results[1], 2))
        ELSE Panic("inconclusive")

(* compare_extrinsics: the change of one formula under a method and unit.  *)
(* params is [method, unit]; every scope is evaluated, then one result is  *)
(* picked.                                                                 *)
compare_extrinsics(old0, new0, params, seed) ==
    LET scope == BaseScope(params.unit)
        old == OptDimensionTerm(old0, params.unit)
        new == OptDimensionTerm(new0, params.unit)
        ext == extend_scoped_components(old, new, params.method, scope, seed)
    IN  IF ~ext.ok THEN Worked(ext, ext.resolved, 0)
        ELSE LET corners == CompareCorners(old, new, params.method, ext.v, 1, <<>>)
             IN  IF ~corners.ok THEN Worked(corners, ext.resolved, NumPresent(old, new))
                 ELSE Worked(PickResult(corners.v), ext.resolved,
                             Len(ext.v) * NumPresent(old, new))

----------------------------------------------------------------------------
(* TermDiff, ExtrinsicDiff, sanity_check_term and compare_files.           *)

\* TermDiff::Changed
Changed(change) == [kind |-> "Changed", change |-> Some(change), msg |-> NoErr]

\* TermDiff::Warning
Warning(change, msg) == [kind |-> "Warning", change |-> Some(change), msg |-> msg]

\* TermDiff::Failed
Failed(msg) == [kind |-> "Failed", change |-> None, msg |-> msg]

ExtrinsicDiff(name, file, change) == [name |-> name, file |-> file, change |-> change]

\* ExtrinsicDiff::term
DiffTerm(entry) == entry.change.change

\* The largest READ or WRITE factor a term may have.
MAX_FACTOR == 1000

SanityErr(what, n) ==
    [kind |-> what, component |-> "", pallet |-> "", extrinsic |-> "", n |-> n]

\* Mutant of sanity_check_term: the message names READs whenever there are some.
sanity_check_term_reads_first(term) ==
    LET reads == UnwrapOrZero(find_largest_factor(term, STORAGE_READ_VAR))
        writes == UnwrapOrZero(find_largest_factor(term, STORAGE_WRITE_VAR))
        larger == Max2(reads, writes)
    IN  IF larger > MAX_FACTOR
        THEN IF reads > 0 THEN Err(SanityErr("READs", reads))
             ELSE Err(SanityErr("WRITEs", writes))
        ELSE Ok(0)

\* sanity_check_term: no more than 1000 reads or writes.
sanity_check_term(term) ==
    LET reads == UnwrapOrZero(find_largest_factor(term, STORAGE_READ_VAR))
        writes == UnwrapOrZero(find_largest_factor(term, STORAGE_WRITE_VAR))
        larger == Max2(reads, writes)
    IN  IF larger > MAX_FACTOR
        THEN IF reads > writes THEN Err(SanityErr("READs", reads))
             ELSE Err(SanityErr("WRITEs", writes))
        ELSE Ok(0)

(* A compiled fancy_regex::Regex, by what it answers: is_match of a name   *)
(* is "yes", "no" or "err" (a run-time error); valid is whether Regex::new *)
(* accepted the pattern.                                                   *)
Regex(valid, is_match) == [valid |-> valid, is_match |-> is_match]

\* r.is_match(name).unwrap_or_default() under map_or(true, ..)
RegexAccepts(regex, name) == IsNone(regex) \/ Unwrap(regex).is_match[name] = "yes"

\* Ord for (String, String)
IdentLess(x, y) == NameLess(x[1], y[1]) \/ (x[1] = y[1] /\ NameLess(x[2], y[2]))

RECURSIVE SortedIdents(_)
SortedIdents(S) ==
    IF S = {} THEN <<>>
    ELSE LET m == CHOOSE x \in S : \A y \in S : ~IdentLess(y, x)
         IN  <<m>> \o SortedIdents(S \ {m})

\* Mutant of IdentityNames: the names of the new side are left out.
IdentityNames_old_only(olds, news) ==
    SortedIdents({<<olds[i].pallet, olds[i].name>> : i \in DOMAIN olds})

\* old_names.chain(new_names).collect::<BTreeSet<_>>()
IdentityNames(olds, news) ==
    SortedIdents({<<olds[i].pallet, olds[i].name>> : i \in DOMAIN olds}
                    \cup {<<news[i].pallet, news[i].name>> : i \in DOMAIN news})

\* iter().find(|&n| n.name == extrinsic && n.pallet == pallet)
FindExtrinsic(list, pallet, extrinsic) ==
    LET hits == {i \in DOMAIN list : list[i].name = extrinsic /\ list[i].pallet = pallet}
    IN  IF hits = {} THEN None ELSE Some(list[CHOOSE i \in hits : \A j \in hits : i <= j])

WithNames(err, pallet, extrinsic) ==
    [kind |-> err.kind, component |-> err.component, pallet |-> pallet,
     extrinsic |-> extrinsic, n |-> err.n]

\* The Warning or Changed of a compared extrinsic, by its sanity check.
TermDiffSane(change, ext, sane) ==
    IF ~sane.ok THEN Ok(Warning(change, WithNames(sane.err, ext.pallet, ext.name)))
    ELSE Ok(Changed(change))

\* The TermDiff of one identity from the result r of compare_extrinsics.
TermDiffOf(r, found) ==
    IF IsPanic(r) THEN r
    ELSE IF ~r.ok THEN Ok(Failed(r.err))
    ELSE IF IsNone(found) THEN Panic("unreachable_no_extrinsic")
    ELSE TermDiffSane(r.v, Unwrap(found), sanity_check_term(Unwrap(found).term))

\* The body of the loop of compare_files for one identity: new and old found.
CompareFound(old, new, params, seed) ==
    TermDiffOf(compare_extrinsics(old, new, params, seed), OptOr(new, old))

\* The body of the loop of compare_files for one identity: its TermDiff.
CompareOne(pallet, extrinsic, olds, news, params, seed) ==
    CompareFound(FindExtrinsic(olds, pallet, extrinsic), FindExtrinsic(news, pallet, extrinsic),
                 params, seed)

\* The loop of compare_files over the identities, from the i-th on.
RECURSIVE CompareLoop(_, _, _, _, _, _, _, _)
RECURSIVE PushDiff(_, _, _, _, _, _, _, _, _)
PushDiff(names, i, olds, news, params, filter, seed, diff, change) ==
    IF IsPanic(change) THEN change
    ELSE CompareLoop(names, i + 1, olds, news, params, filter, seed,
                     Append(diff, ExtrinsicDiff(names[i][2], names[i][1], change.v)))

CompareLoop(names, i, olds, news, params, filter, seed, diff) ==
    IF i > Len(names) THEN Ok(diff)
    ELSE IF ~RegexAccepts(filter.pallet, names[i][1])
    THEN CompareLoop(names, i + 1, olds, news, params, filter, seed, diff)
    ELSE IF ~RegexAccepts(filter.extrinsic, names[i][2])
    THEN CompareLoop(names, i + 1, olds, news, params, filter, seed, diff)
    ELSE PushDiff(names, i, olds, news, params, filter, seed, diff,
                  CompareOne(names[i][1], names[i][2], olds, news, params, seed))

RegexErr == [kind |-> "Regex", component |-> "", pallet |-> "", extrinsic |-> "", n |-> 0]

\* into_iter().map(|e| e.map_term(|t| t.simplify(unit))).collect()
RECURSIVE SimplifyAll(_, _)
SimplifyAll(list, unit) ==
    IF list = <<>> THEN <<>>
    ELSE <<map_term_simplify(Head(list), unit)>> \o SimplifyAll(Tail(list), unit)

(* compare_files: the diff of two sets of extrinsics.  `seed' is the draw  *)
(* of the hasher keys of the HashSets made during the run.                 *)
compare_files(olds0, news0, params, filter, seed) ==
    IF IsSome(filter.extrinsic) /\ ~Unwrap(filter.extrinsic).valid THEN Err(RegexErr)
    ELSE IF IsSome(filter.pallet) /\ ~Unwrap(filter.pallet).valid THEN Err(RegexErr)
    ELSE CompareLoop(IdentityNames(olds0, news0), 1, SimplifyAll(olds0, params.unit),
                     SimplifyAll(news0, params.unit), params, filter, seed, <<>>)

----------------------------------------------------------------------------
(* filter_changes and sort_changes.  A threshold (f64) is a whole number   *)
(* of THRESHOLD_UNITs: 10^-7 percent.                                      *)

\* 0.000001, in units of 10^-7
UNCHANGED_THRESHOLD == 10

\* The default threshold, 5, in units of 10^-7
DEFAULT_THRESHOLD == 50000000

\* The number of decimal digits of a threshold unit (10^-7 percent = 10^-9).
THRESHOLD_DIGITS == 9

FilterParams(threshold, change, extrinsic, pallet) ==
    [threshold |-> threshold, change |-> change, extrinsic |-> extrinsic, pallet |-> pallet]

\* FilterParams::included
included(params, change) == IsNone(params.change) \/ change \in Unwrap(params.change)

\* Mutant of AbsPercentBelow: the sign of the percent is kept.
AbsPercentBelow_no_abs(p, threshold) ==
    CASE p.t # "fin" -> FALSE
      [] p.num < 0 -> TRUE
      [] threshold <= 0 -> FALSE
      [] OTHER ->
            LET hi == p.num \div p.den
                lo == ScaleDiv(0, p.num % p.den, p.den, THRESHOLD_DIGITS)
                th == threshold \div (10 ^ THRESHOLD_DIGITS)
                tl == threshold % (10 ^ THRESHOLD_DIGITS)
            IN  hi < th \/ (hi = th /\ lo < tl)

(* change.percent.abs() < params.threshold.  A comparison with NaN is      *)
(* false, and so is +infinity < threshold.  100 * |num| / den < t / 10^7   *)
(* is floor(10^9 * |num| / den) < t, for t a whole number.                 *)
AbsPercentBelow(p, threshold) ==
    CASE p.t # "fin" -> FALSE
      [] threshold <= 0 -> FALSE
      [] OTHER ->
            LET a == Abs(p.num)
                hi == a \div p.den
                lo == ScaleDiv(0, a % p.den, p.den, THRESHOLD_DIGITS)
                th == threshold \div (10 ^ THRESHOLD_DIGITS)
                tl == threshold % (10 ^ THRESHOLD_DIGITS)
            IN  hi < th \/ (hi = th /\ lo < tl)

\* The closure of filter_changes: whether an entry stays.
FilterKeeps(entry, params) ==
    IF entry.change.kind = "Failed" THEN TRUE
    ELSE LET change == Unwrap(entry.change.change)
         IN  IF ~included(params, change.change) THEN FALSE
             ELSE IF change.change = "Changed" /\ AbsPercentBelow(change.percent, params.threshold)
             THEN FALSE
             ELSE IF change.change = "Unchanged" /\ params.threshold >= UNCHANGED_THRESHOLD
             THEN FALSE
             ELSE TRUE

\* filter_changes
filter_changes(diff, params) ==
    LET keep(entry) == FilterKeeps(entry, params)
    IN  SelectSeq(diff, keep)

\* TermDiff::cmp, as -1 (Less), 0 (Equal) or 1 (Greater).
TermDiff_cmp(a, b) ==
    CASE a.kind = "Failed" -> -1
      [] b.kind = "Failed" -> 1
      [] OTHER -> TermChange_cmp(Unwrap(a.change), Unwrap(b.change))

\* The closure sort_by hands to the sort: compare(a, b) == Less.
is_less(a, b) == TermDiff_cmp(a.change, b.change) = -1

(* slice::sort_by on at most 20 elements is an insertion sort.  Up to Rust *)
(* 1.80 it inserts each element, from the last but one to the first, at    *)
(* the head of the sorted rest (insert_head) ...                           *)
RECURSIVE InsertHead(_, _, _)
InsertHead(x, rest, i) ==
    IF i <= Len(rest) /\ is_less(rest[i], x) THEN InsertHead(x, rest, i + 1)
    ELSE SubSeq(rest, 1, i - 1) \o <<x>> \o SubSeq(rest, i, Len(rest))

RECURSIVE SortInsertHead(_, _)
SortInsertHead(v, i) ==
    IF i > Len(v) THEN <<>> ELSE InsertHead(v[i], SortInsertHead(v, i + 1), 1)

(* ... and from Rust 1.81 it inserts each element, from the second to the  *)
(* last, at the tail of the sorted elements before it (insert_tail).       *)
RECURSIVE InsertTail(_, _, _)
InsertTail(sorted, x, i) ==
    IF i >= 1 /\ is_less(x, sorted[i]) THEN InsertTail(sorted, x, i - 1)
    ELSE SubSeq(sorted, 1, i) \o <<x>> \o SubSeq(sorted, i + 1, Len(sorted))

RECURSIVE SortInsertTail(_, _)
SortInsertTail(v, i) ==
    IF i = 0 THEN <<>>
    ELSE LET sorted == SortInsertTail(v, i - 1) IN InsertTail(sorted, v[i], Len(sorted))

SortImpls == {"insert_head", "insert_tail"}

\* sort_changes, under one of the two implementations of slice::sort_by.
sort_changes(diff, impl) ==
    IF impl = "insert_head" THEN SortInsertHead(diff, 1) ELSE SortInsertTail(diff, Len(diff))

----------------------------------------------------------------------------
(* SpecIC: instance_component on every pair of optional range maps.        *)

\* Largest bound of a declared range the specifications draw.
MaxRangeBound == 2

DrawnRanges == {ComponentRange(lo, hi) : lo \in 0..MaxRangeBound, hi \in 0..MaxRangeBound}

\* Range maps that declare at most "a" (any drawn range) and "b" (one fixed range).
DrawnRangeMaps ==
    {[c \in Range(AllComponents) |->
        IF c = "a" THEN ra ELSE IF c = "b" THEN rb ELSE None] :
        ra \in {None} \cup {Some(r) : r \in DrawnRanges},
        rb \in {None, Some(ComponentRange(1, 2))}}

DrawnOptRangeMaps == {None} \cup {Some(m) : m \in DrawnRangeMaps}

InitIdle ==
    /\ call = Idle
    /\ ret = None
    /\ ret2 = None
    /\ pc = "none"
    /\ git = <<>>

CallInstanceComponent ==
    /\ call = Idle
    /\ \E component \in {"a", "b"}, ra \in DrawnOptRangeMaps, rb \in DrawnOptRangeMaps,
          strategy \in Strategies :
        /\ call' = [fn |-> "instance_component", component |-> component, ra |-> ra,
                    rb |-> rb, strategy |-> strategy]
        /\ ret' = Some(instance_component(component, ra, rb, strategy, "system", "transfer"))
        /\ UNCHANGED <<ret2, pc, git>>

NextIC == CallInstanceComponent

SpecIC == InitIdle /\ [][NextIC]_vars

(* C1: instance_component follows the four-way range table.  With the      *)
(* ranges the two sides declare for the component: exactly one declared    *)
(* gives that range's min or max, under exact strategies too; both equal   *)
(* gives that range's min or max; both different is an error if exact,     *)
(* else the min of the mins or the max of the maxes; none declared is an   *)
(* error if exact, else 0 for Min and 100 for Max.                         *)
C1_RangeTable ==
    call.fn = "instance_component" =>
        LET a == RangeOf(call.ra, call.component)
            b == RangeOf(call.rb, call.component)
            isMin == call.strategy.min_or_max = "Min"
            exact == call.strategy.exact
            r == Unwrap(ret)
        IN  /\ (IsSome(a) /\ IsNone(b)) =>
                    r.ok /\ r.v = (IF isMin THEN a[1].min ELSE a[1].max)
            /\ (IsNone(a) /\ IsSome(b)) =>
                    r.ok /\ r.v = (IF isMin THEN b[1].min ELSE b[1].max)
            /\ (IsSome(a) /\ IsSome(b) /\ a[1] = b[1]) =>
                    r.ok /\ r.v = (IF isMin THEN a[1].min ELSE a[1].max)
            /\ (IsSome(a) /\ IsSome(b) /\ a[1] # b[1] /\ exact) =>
                    ~r.ok /\ r.err.kind = "DifferentRanges"
            /\ (IsSome(a) /\ IsSome(b) /\ a[1] # b[1] /\ ~exact) =>
                    r.ok /\ r.v = (IF isMin THEN Min2(a[1].min, b[1].min)
                                            ELSE Max2(a[1].max, b[1].max))
            /\ (IsNone(a) /\ IsNone(b) /\ exact) => ~r.ok /\ r.err.kind = "NoRange"
            /\ (IsNone(a) /\ IsNone(b) /\ ~exact) => r.ok /\ r.v = (IF isMin THEN 0 ELSE 100)

\* C1 witness: old {0,2} and new {1,1} differ and the guessed maximum is 2.
C1_Witness ==
    /\ call.fn = "instance_component"
    /\ call.component = "a"
    /\ RangeOf(call.ra, "a") = Some(ComponentRange(0, 2))
    /\ RangeOf(call.rb, "a") = Some(ComponentRange(1, 1))
    /\ call.strategy = guess_max
    /\ Unwrap(ret) = Ok(2)

----------------------------------------------------------------------------
(* SpecCompare: extend_scoped_components, compare_terms and                *)
(* compare_extrinsics on formula pairs over the components a and b.        *)

\* Largest draw of the hasher keys of a HashSet.
MaxSeed == 1

Seeds == 0..MaxSeed

\* 1000 + 2 * READ: no component.
TermBase == Add(Scalar(1000), Mul(Scalar(2), Var(STORAGE_READ_VAR)))

\* 3 * a + 2 * READ
TermA == Add(Mul(Scalar(3), Var("a")), Mul(Scalar(2), Var(STORAGE_READ_VAR)))

\* 5 * a + 7 * b: 0 when both components are 0.
TermAB == Add(Mul(Scalar(5), Var("a")), Mul(Scalar(7), Var("b")))

DrawnTerms == {TermBase, TermA, TermAB}

DrawnOptTerms == {None} \cup {Some(t) : t \in DrawnTerms}

\* The range maps of a formula pair: what each side declares for a and for b.
RangeMap(ra, rb) ==
    [c \in Range(AllComponents) |-> IF c = "a" THEN ra ELSE IF c = "b" THEN rb ELSE None]

CompRanges(ra, rb) == IF IsNone(ra) /\ IsNone(rb) THEN None ELSE Some(RangeMap(ra, rb))

DrawnOldA == {None} \cup {Some(r) : r \in DrawnRanges}

DrawnNewA == {None, Some(ComponentRange(0, 2)), Some(ComponentRange(1, 1))}

DrawnPairB ==
    {<<None, None>>, <<Some(ComponentRange(1, 2)), Some(ComponentRange(1, 2))>>,
     <<Some(ComponentRange(1, 2)), None>>}

\* The pairs of optional extrinsics system::transfer, at least one side present.
DrawnPairs ==
    {<<IF IsSome(to) THEN Some(Extrinsic("system", "transfer", Unwrap(to),
                                         CompRanges(oa, pb[1]))) ELSE None,
       IF IsSome(tn) THEN Some(Extrinsic("system", "transfer", Unwrap(tn),
                                         CompRanges(na, pb[2]))) ELSE None>> :
        to \in DrawnOptTerms, tn \in DrawnOptTerms, oa \in DrawnOldA, na \in DrawnNewA,
        pb \in DrawnPairB} \ {<<None, None>>}

CompareParams(method, unit) == [method |-> method, unit |-> unit]

CallExtendScopedComponents ==
    /\ call = Idle
    /\ \E pair \in DrawnPairs, method \in CompareMethods, unit \in Dimensions, seed \in Seeds :
        LET a == OptDimensionTerm(pair[1], unit)
            b == OptDimensionTerm(pair[2], unit)
        IN  /\ call' = [fn |-> "extend_scoped_components", a |-> a, b |-> b,
                        method |-> method, scope |-> BaseScope(unit), seed |-> seed]
            /\ ret' = Some(extend_scoped_components(a, b, method, BaseScope(unit), seed))
            /\ UNCHANGED <<ret2, pc, git>>

\* Values a scope binds a component to.
DrawnValues == {0, 1, 100}

CallCompareTerms ==
    /\ call = Idle
    /\ \E old \in DrawnOptTerms, new \in DrawnOptTerms, method \in CompareMethods,
          unit \in Dimensions, va \in DrawnValues, vb \in DrawnValues :
        LET scope == put_var(put_var(BaseScope(unit), "a", va), "b", vb)
        IN  /\ IsSome(old) \/ IsSome(new)
            /\ call' = [fn |-> "compare_terms", old |-> old, new |-> new,
                        method |-> method, scope |-> scope]
            /\ ret' = Some(compare_terms(old, new, method, scope))
            /\ UNCHANGED <<ret2, pc, git>>

CallCompareExtrinsics ==
    /\ call = Idle
    /\ \E pair \in DrawnPairs, method \in CompareMethods, unit \in Dimensions, seed \in Seeds :
        /\ call' = [fn |-> "compare_extrinsics", old |-> pair[1], new |-> pair[2],
                    params |-> CompareParams(method, unit), seed |-> seed]
        /\ ret' = Some(compare_extrinsics(pair[1], pair[2], CompareParams(method, unit), seed))
        /\ UNCHANGED <<ret2, pc, git>>

NextCompare == CallExtendScopedComponents \/ CallCompareTerms \/ CallCompareExtrinsics

SpecCompare == InitIdle /\ [][NextCompare]_vars

\* The free components of a formula pair: those of both terms that the scope leaves free.
FreesOf(a, b, scope) == FreeVarsOf(a, scope) \cup FreeVarsOf(b, scope)

(* C3: for a formula present on both sides with structurally identical     *)
(* terms, compare_terms returns the classification Unchanged and the       *)
(* percent 0 at every scope that binds all its variables, those where the  *)
(* term evaluates to 0 included.                                           *)
C3_IdenticalTermsPercentZero ==
    (call.fn = "compare_terms" /\ IsSome(call.old) /\ call.old = call.new) =>
        /\ Unwrap(ret).ok
        /\ Unwrap(ret).v.change = "Unchanged"
        /\ Unwrap(ret).v.percent.t = "fin"
        /\ Unwrap(ret).v.percent.num = 0

\* The (low, high) strategies of each method, as C7 states them.
C7_Low(method) ==
    CASE method = "Base" -> guess_min
      [] method = "GuessWorst" -> guess_min
      [] method = "ExactWorst" -> exact_min
      [] method = "Asymptotic" -> exact_max

C7_High(method) ==
    CASE method = "Base" -> guess_min
      [] method = "GuessWorst" -> guess_max
      [] method = "ExactWorst" -> exact_max
      [] method = "Asymptotic" -> exact_max

(* C7: the scopes extend_scoped_components returns are the distinct        *)
(* elements of the product {low, high} over the free variables, in         *)
(* strictly ascending order, with (low, high) resolved per method; Base    *)
(* and Asymptotic yield exactly one scope; a free component that neither   *)
(* side declares is bound to 0 under Base, to 0 and 100 under GuessWorst,  *)
(* and makes ExactWorst and Asymptotic fail.                               *)
C7_CornerScopes ==
    call.fn = "extend_scoped_components" =>
        LET r == Unwrap(ret)
            frees == FreesOf(call.a, call.b, call.scope)
            e == Unwrap(OptOr(call.a, call.b))
            ra == RangesOf(call.a)
            rb == RangesOf(call.b)
            lo(c) == instance_component(c, ra, rb, C7_Low(call.method), e.pallet, e.name)
            hi(c) == instance_component(c, ra, rb, C7_High(call.method), e.pallet, e.name)
            product ==
                {[n \in DOMAIN call.scope \cup frees |->
                    IF n \in frees THEN (IF f[n] = "low" THEN lo(n).v ELSE hi(n).v)
                    ELSE call.scope[n]] : f \in [frees -> {"low", "high"}]}
            undeclared == {c \in frees : IsNone(RangeOf(ra, c)) /\ IsNone(RangeOf(rb, c))}
        IN  /\ r.ok <=> \A c \in frees : lo(c).ok /\ hi(c).ok
            /\ r.ok =>
                /\ Range(r.v) = product
                /\ \A i \in 1..Len(r.v), j \in 1..Len(r.v) : i < j => ScopeLess(r.v[i], r.v[j])
                /\ call.method \in {"Base", "Asymptotic"} => Len(r.v) = 1
            /\ \A c \in undeclared :
                /\ call.method = "Base" => r.ok /\ {s[c] : s \in Range(r.v)} = {0}
                /\ call.method = "GuessWorst" => r.ok /\ {s[c] : s \in Range(r.v)} = {0, 100}
                /\ call.method \in {"ExactWorst", "Asymptotic"} => ~r.ok

\* C7 witness: GuessWorst on two free components with distinct bounds gives four scopes.
C7_Witness ==
    /\ call.fn = "extend_scoped_components"
    /\ call.method = "GuessWorst"
    /\ FreesOf(call.a, call.b, call.scope) = {"a", "b"}
    /\ call.seed = 1
    /\ Unwrap(ret).ok
    /\ Len(Unwrap(ret).v) = 4
    /\ Unwrap(ret).v[1]["a"] = 0
    /\ Unwrap(ret).v[4]["a"] = 2
    /\ Unwrap(ret).v[4]["b"] = 100

----------------------------------------------------------------------------
(* SpecLimit: compare_extrinsics on formulas with up to 17 components.     *)

\* names[i] + ... + names[Len(names)], each with the factor 1.
RECURSIVE SumTerm(_, _)
SumTerm(names, i) ==
    IF i = Len(names) THEN Mul(Scalar(1), Var(names[i]))
    ELSE Add(Mul(Scalar(1), Var(names[i])), SumTerm(names, i + 1))

\* Every component declared with the range {1, 1}.
AllOnes == Some([c \in Range(AllComponents) |-> Some(ComponentRange(1, 1))])

\* a + ... + p (16 components) with ranges, a + ... + q (17) with and without.
Ext16 == Extrinsic("system", "transfer", SumTerm(SubSeq(AllComponents, 1, 16), 1), AllOnes)

Ext17 == Extrinsic("system", "transfer", SumTerm(AllComponents, 1), AllOnes)

Ext17NoRanges == Extrinsic("system", "transfer", SumTerm(AllComponents, 1), None)

\* q + 2 * READ, without ranges
ExtQ ==
    Extrinsic("system", "transfer",
              Add(Mul(Scalar(1), Var("q")), Mul(Scalar(2), Var(STORAGE_READ_VAR))), None)

\* 3 * a + 2 * READ, with the range {0, 2} for a
ExtA == Extrinsic("system", "transfer", TermA, CompRanges(Some(ComponentRange(0, 2)), None))

\* Pairs with at most 2 or at least 17 free components, under every method and unit.
DrawnFarPairs ==
    ({<<x, y>> : x, y \in {None, Some(Ext17), Some(Ext17NoRanges), Some(ExtQ), Some(ExtA)}}
        \ {<<None, None>>})
    \cup {<<Some(Ext16), Some(ExtQ)>>, <<Some(ExtQ), Some(Ext16)>>,
          <<Some(Ext16), Some(Ext17NoRanges)>>}

\* Pairs with exactly 16 free components.
DrawnEdgePairs == {<<Some(Ext16), None>>}

CallCompareExtrinsicsFar ==
    /\ call = Idle
    /\ \E pair \in DrawnFarPairs, method \in CompareMethods, unit \in Dimensions,
          seed \in Seeds :
        /\ call' = [fn |-> "compare_extrinsics", old |-> pair[1], new |-> pair[2],
                    params |-> CompareParams(method, unit), seed |-> seed]
        /\ ret' = Some(compare_extrinsics(pair[1], pair[2], CompareParams(method, unit), seed))
        /\ UNCHANGED <<ret2, pc, git>>

CallCompareExtrinsicsEdge ==
    /\ call = Idle
    /\ \E pair \in DrawnEdgePairs, method \in CompareMethods :
        /\ call' = [fn |-> "compare_extrinsics", old |-> pair[1], new |-> pair[2],
                    params |-> CompareParams(method, "Time"), seed |-> 0]
        /\ ret' = Some(compare_extrinsics(pair[1], pair[2], CompareParams(method, "Time"), 0))
        /\ UNCHANGED <<ret2, pc, git>>

NextLimit == CallCompareExtrinsicsFar \/ CallCompareExtrinsicsEdge

SpecLimit == InitIdle /\ [][NextLimit]_vars

(* C2: when the old and new terms together have more than 16 free          *)
(* variables relative to the base scope, compare_extrinsics fails with the *)
(* too-many-components error under every method, having resolved no range  *)
(* and evaluated no term; with 16 or fewer it never returns that error.    *)
C2_TooManyComponents ==
    call.fn = "compare_extrinsics" =>
        LET r == Unwrap(ret)
            unit == call.params.unit
            frees == FreesOf(OptDimensionTerm(call.old, unit), OptDimensionTerm(call.new, unit),
                             BaseScope(unit))
        IN  /\ ~IsPanic(r)
            /\ Cardinality(frees) > 16 =>
                /\ ~r.ok
                /\ r.err.kind = "TooMany"
                /\ r.err.n = Cardinality(frees)
                /\ r.resolved = 0
                /\ r.evaluated = 0
            /\ Cardinality(frees) <= 16 => r.err.kind # "TooMany"

\* C2 witness: 17 components without ranges under ExactWorst: the limit is what fails.
C2_Witness ==
    /\ call.fn = "compare_extrinsics"
    /\ call.old = Some(Ext16)
    /\ call.new = Some(Ext17NoRanges)
    /\ call.params.method = "ExactWorst"
    /\ Unwrap(ret).err.kind = "TooMany"
    /\ Unwrap(ret).err.n = 17

\* C2 witness of the other side: 16 components are compared.
C2_WitnessEdge ==
    /\ call.fn = "compare_extrinsics"
    /\ call.old = Some(Ext16)
    /\ call.new = None
    /\ Unwrap(ret).ok
    /\ Unwrap(ret).v.change = "Removed"
    /\ Unwrap(ret).resolved = 32

----------------------------------------------------------------------------
(* SpecFiles: compare_files on lists of extrinsics, run once and again.    *)

MaxFileLen == 2

\* ChromaticTerm: a term for each dimension.
Chromatic(time, proof) == [time |-> time, proof |-> proof]

\* balances::transfer, without components
ExtBalances == Extrinsic("balances", "transfer", Chromatic(TermBase, Scalar(300)), None)

\* system::transfer over a and b, neither with a range
ExtAB == Extrinsic("system", "transfer", Chromatic(TermAB, TermAB), None)

\* system::transfer over a, with the range {0, 2}
ExtTransferA ==
    Extrinsic("system", "transfer", Chromatic(TermA, Mul(Scalar(4), Var("a"))),
              CompRanges(Some(ComponentRange(0, 2)), None))

\* staking::vote over 17 components
ExtVote17 ==
    Extrinsic("staking", "vote", Chromatic(SumTerm(AllComponents, 1), SumTerm(AllComponents, 1)),
              None)

\* system::vote: 1500 WRITEs in its proof term
ExtVoteWrites ==
    Extrinsic("system", "vote",
              Chromatic(Add(Scalar(7), Mul(Scalar(2), Var(STORAGE_WRITE_VAR))),
                        Add(Scalar(5), Mul(Scalar(1500), Var(STORAGE_WRITE_VAR)))),
              None)

Catalogue == {ExtBalances, ExtAB, ExtTransferA, ExtVote17, ExtVoteWrites}

RECURSIVE ListsOver(_, _)
ListsOver(S, n) ==
    IF n = 0 THEN {<<>>}
    ELSE LET shorter == ListsOver(S, n - 1)
         IN  shorter \cup {Append(l, x) : l \in {k \in shorter : Len(k) = n - 1}, x \in S}

DrawnFiles == ListsOver(Catalogue, MaxFileLen)

\* The new side: the old side itself, or one of two files.
DrawnFilePairs ==
    {<<olds, news>> : olds \in DrawnFiles, news \in {<<>>, <<ExtVoteWrites, ExtTransferA>>}}
    \cup {<<olds, olds>> : olds \in DrawnFiles}

\* ^system$ for pallets, where the match of "staking" ends in a run-time error
RegexSystem ==
    Regex(TRUE, [n \in Range(AllIdents) |->
                    IF n = "system" THEN "yes" ELSE IF n = "staking" THEN "err" ELSE "no"])

\* ^transfer$ for extrinsics
RegexTransfer == Regex(TRUE, [n \in Range(AllIdents) |-> IF n = "transfer" THEN "yes" ELSE "no"])

\* A pattern Regex::new rejects
RegexInvalid == Regex(FALSE, [n \in Range(AllIdents) |-> "no"])

DrawnFilters ==
    {FilterParams(DEFAULT_THRESHOLD, None, None, None),
     FilterParams(DEFAULT_THRESHOLD, None, Some(RegexTransfer), Some(RegexSystem)),
     FilterParams(DEFAULT_THRESHOLD, None, Some(RegexInvalid), None),
     FilterParams(DEFAULT_THRESHOLD, None, Some(RegexTransfer), Some(RegexInvalid))}

CallCompareFiles ==
    /\ call = Idle
    /\ \E pair \in DrawnFilePairs, method \in CompareMethods, unit \in Dimensions,
          filter \in DrawnFilters, seed \in Seeds :
        /\ call' = [fn |-> "compare_files", olds |-> pair[1], news |-> pair[2],
                    params |-> CompareParams(method, unit), filter |-> filter, seed |-> seed]
        /\ ret' = Some(compare_files(pair[1], pair[2], CompareParams(method, unit), filter, seed))
        /\ UNCHANGED <<ret2, pc, git>>

\* The same call once more: the hasher keys are drawn anew.
RerunCompareFiles ==
    /\ call # Idle
    /\ call.fn = "compare_files"
    /\ ret2 = None
    /\ \E seed \in Seeds :
        /\ ret2' = Some(compare_files(call.olds, call.news, call.params, call.filter, seed))
        /\ UNCHANGED <<call, ret, pc, git>>

NextFiles == CallCompareFiles \/ RerunCompareFiles

SpecFiles == InitIdle /\ [][NextFiles]_vars

\* The (pallet, name) identities of a list of extrinsics.
Identities(list) == {<<list[i].pallet, list[i].name>> : i \in DOMAIN list}

\* The entries of a diff classified Unchanged.
UnchangedEntries(diff) ==
    {i \in DOMAIN diff : diff[i].change.kind # "Failed"
                         /\ Unwrap(DiffTerm(diff[i])).change = "Unchanged"}

FailedEntries(diff) == {i \in DOMAIN diff : diff[i].change.kind = "Failed"}

\* A compare of a list with itself under Base, without name filters.
SelfCompare ==
    /\ call.fn = "compare_files"
    /\ call.olds = call.news
    /\ call.params.method = "Base"
    /\ IsNone(call.filter.pallet)
    /\ IsNone(call.filter.extrinsic)

\* The identities of a list whose formula has more than 16 free components.
TooManyIdentities(list, unit) ==
    {id \in Identities(list) :
        Cardinality(FreeVarsOf(OptDimensionTerm(FindExtrinsic(SimplifyAll(list, unit),
                                                              id[1], id[2]), unit),
                               BaseScope(unit))) > 16}

(* C4 as stated: comparing a list of extrinsics with itself under Base     *)
(* yields only entries classified Unchanged (none Added, Removed or        *)
(* Failed); filter_changes with threshold 0 leaves as many Unchanged       *)
(* entries as the input has identities, and with threshold 5 leaves an     *)
(* empty diff.                                                             *)
C4_SelfCompareAllUnchanged ==
    SelfCompare =>
        LET r == Unwrap(ret)
        IN  /\ r.ok
            /\ UnchangedEntries(r.v) = DOMAIN r.v
            /\ Cardinality(UnchangedEntries(filter_changes(r.v, FilterParams(0, None, None, None))))
                    = Cardinality(Identities(call.olds))
            /\ filter_changes(r.v, FilterParams(DEFAULT_THRESHOLD, None, None, None)) = <<>>

(* C4 amended: comparing a list of extrinsics with itself under Base       *)
(* (without name filter) yields one entry per identity, none Added or      *)
(* Removed: Failed with "too many components" for a formula with more than *)
(* 16 free components and Unchanged for every other; filter_changes with   *)
(* threshold 0 (no allowlist) leaves as many Unchanged entries as there    *)
(* are identities of at most 16 components, and with threshold 5 leaves    *)
(* exactly the Failed entries.                                             *)
C4_SelfCompareUnchangedOrTooMany ==
    SelfCompare =>
        LET r == Unwrap(ret)
            big == TooManyIdentities(call.olds, call.params.unit)
            zero == filter_changes(r.v, FilterParams(0, None, None, None))
            five == filter_changes(r.v, FilterParams(DEFAULT_THRESHOLD, None, None, None))
        IN  /\ r.ok
            /\ Len(r.v) = Cardinality(Identities(call.olds))
            /\ \A i \in DOMAIN r.v :
                IF <<r.v[i].file, r.v[i].name>> \in big
                THEN r.v[i].change.kind = "Failed" /\ r.v[i].change.msg.kind = "TooMany"
                ELSE i \in UnchangedEntries(r.v)
            /\ Cardinality(UnchangedEntries(zero)) = Cardinality(Identities(call.olds) \ big)
            /\ five = SelectSeq(r.v, LAMBDA e : e.change.kind = "Failed")
            /\ big = {} => five = <<>>

\* C4 witness: a self-compare whose diff has a Failed and a Warning entry, both kept or
\* dropped as the amended claim says.
C4_Witness ==
    /\ SelfCompare
    /\ Unwrap(ret).ok
    /\ Len(Unwrap(ret).v) = 2
    /\ Unwrap(ret).v[1].change.kind = "Failed"
    /\ Unwrap(ret).v[2].change.kind = "Warning"
    /\ UnchangedEntries(Unwrap(ret).v) = {2}

(* C5: two runs of compare_files on the same old list, new list, params    *)
(* and filter return identical results: the same entries in the same       *)
(* order, with the same outcome and message each.                          *)
C5_Deterministic == IsSome(ret2) => ret2 = ret

\* The record of an identity in a list, in the dimension of the call.
C6_Found(list, id) == FindExtrinsic(SimplifyAll(list, call.params.unit), id[1], id[2])

C6_Matches(regex, name) == IsSome(regex) => Unwrap(regex).is_match[name] = "yes"

C6_Before(x, y) ==
    \/ NameRank(x.file) < NameRank(y.file)
    \/ x.file = y.file /\ NameRank(x.name) < NameRank(y.name)

(* C6: compare_files returns one ExtrinsicDiff for each (pallet, name)     *)
(* identity of the old or the new list that both regex filters match, in   *)
(* ascending identity order, and none for another identity; an identity    *)
(* whose compare_extrinsics fails (too many components, differing or       *)
(* missing ranges) gets Failed with that reason, and the entries of the    *)
(* other identities are returned all the same: the call fails only on an   *)
(* invalid regex.                                                          *)
C6_OneDiffPerIdentity ==
    call.fn = "compare_files" =>
        LET r == Unwrap(ret)
            wanted == {id \in Identities(call.olds) \cup Identities(call.news) :
                          /\ C6_Matches(call.filter.pallet, id[1])
                          /\ C6_Matches(call.filter.extrinsic, id[2])}
            valid == /\ IsSome(call.filter.pallet) => Unwrap(call.filter.pallet).valid
                     /\ IsSome(call.filter.extrinsic) => Unwrap(call.filter.extrinsic).valid
        IN  /\ ~IsPanic(r)
            /\ r.ok <=> valid
            /\ r.ok =>
                /\ {<<r.v[i].file, r.v[i].name>> : i \in DOMAIN r.v} = wanted
                /\ \A i, j \in DOMAIN r.v : i < j => C6_Before(r.v[i], r.v[j])
                /\ \A i \in DOMAIN r.v :
                    LET id == <<r.v[i].file, r.v[i].name>>
                        one == compare_extrinsics(C6_Found(call.olds, id),
                                                  C6_Found(call.news, id),
                                                  call.params, call.seed)
                    IN  /\ r.v[i].change.kind = "Failed" <=> ~one.ok
                        /\ ~one.ok =>
                            /\ r.v[i].change.msg = one.err
                            /\ one.err.kind \in {"TooMany", "DifferentRanges", "NoRange"}
                            /\ one.err.pallet = id[1]
                            /\ one.err.extrinsic = id[2]

\* C6 witness: a Failed entry (17 components) followed by an Unchanged and an Added entry.
C6_Witness ==
    /\ call.fn = "compare_files"
    /\ Unwrap(ret).ok
    /\ Len(Unwrap(ret).v) = 3
    /\ Unwrap(ret).v[1].change.kind = "Failed"
    /\ Unwrap(ret).v[1].change.msg.kind = "TooMany"
    /\ Unwrap(ret).v[2].change.kind = "Changed"
    /\ Unwrap(Unwrap(ret).v[3].change.change).change = "Added"

----------------------------------------------------------------------------
(* SpecFilterSort: filter_changes and sort_changes on diffs of distinct    *)
(* entries.                                                                *)

MaxDiffLen == 3

\* The entry for `name' that compares the constant terms old and new (None: absent).
ScalarChange(old, new) ==
    compare_terms(IF IsSome(old) THEN Some(Scalar(Unwrap(old))) ELSE None,
                  IF IsSome(new) THEN Some(Scalar(Unwrap(new))) ELSE None,
                  "Base", EmptyScope).v

EntryChanged(name, old, new) == ExtrinsicDiff(name, "system", Changed(ScalarChange(old, new)))

\* Unchanged 0 %; Added +inf; Removed -100 %; Changed by 4.999 %, 5.001 %, 5.0014 %,
\* -7.5 % and, from 0 to 0 + 0, NaN; a Warning with the change of 5.001 %; two Failed.
EntryPool ==
    {EntryChanged("e_unchanged", Some(100), Some(100)),
     EntryChanged("e_added", None, Some(7)),
     EntryChanged("e_removed", Some(7), None),
     EntryChanged("e_4999", Some(100000), Some(104999)),
     EntryChanged("e_5001", Some(100000), Some(105001)),
     EntryChanged("e_50014", Some(1000000), Some(1050014)),
     EntryChanged("e_minus", Some(1000), Some(925)),
     ExtrinsicDiff("e_nan", "system",
                   Changed(compare_terms(Some(Scalar(0)), Some(Add(Scalar(0), Scalar(0))),
                                         "Base", EmptyScope).v)),
     ExtrinsicDiff("e_warning", "system",
                   Warning(ScalarChange(Some(100000), Some(105001)),
                           WithNames(SanityErr("WRITEs", 1500), "system", "e_warning"))),
     ExtrinsicDiff("e_failed_range", "system",
                   Failed(NoRangeErr("a", "system", "e_failed_range"))),
     ExtrinsicDiff("e_failed_many", "system", Failed(TooManyErr("system", "e_failed_many", 17)))}

\* The diffs of at most MaxDiffLen entries, no entry twice.
DrawnDiffs == {d \in ListsOver(EntryPool, MaxDiffLen) : Cardinality(Range(d)) = Len(d)}

\* Thresholds 0, 0.0000005, 0.000001 and 5, in units of 10^-7.
DrawnThresholds == {0, 5, UNCHANGED_THRESHOLD, DEFAULT_THRESHOLD}

DrawnAllowlists == {None, Some({"Changed", "Added"}), Some({"Unchanged"})}

CallFilterChanges ==
    /\ call = Idle
    /\ \E diff \in DrawnDiffs, threshold \in DrawnThresholds, change \in DrawnAllowlists :
        /\ call' = [fn |-> "filter_changes", diff |-> diff,
                    params |-> FilterParams(threshold, change, None, None)]
        /\ ret' = Some(filter_changes(diff, FilterParams(threshold, change, None, None)))
        /\ UNCHANGED <<ret2, pc, git>>

CallSortChanges ==
    /\ call = Idle
    /\ \E diff \in DrawnDiffs, impl \in SortImpls :
        /\ call' = [fn |-> "sort_changes", diff |-> diff, impl |-> impl]
        /\ ret' = Some(sort_changes(diff, impl))
        /\ UNCHANGED <<ret2, pc, git>>

NextFilterSort == CallFilterChanges \/ CallSortChanges

SpecFilterSort == InitIdle /\ [][NextFilterSort]_vars

\* The place of an entry in a diff of distinct entries.
PlaceIn(diff, entry) == CHOOSE i \in DOMAIN diff : diff[i] = entry

\* The rule of C8 for one entry.
C8_Passes(entry, params) ==
    LET kind == entry.change.kind
        change == Unwrap(entry.change.change)
    IN  \/ kind = "Failed"
        \/ /\ kind \in {"Warning", "Changed"}
           /\ IsSome(params.change) => change.change \in Unwrap(params.change)
           /\ CASE change.change = "Changed" -> ~AbsPercentBelow(change.percent, params.threshold)
                [] change.change = "Unchanged" -> params.threshold < UNCHANGED_THRESHOLD
                [] OTHER -> TRUE

(* C8: filter_changes returns, in their input order and unmodified, the    *)
(* entries that pass: every Failed entry; a Warning or Changed entry if    *)
(* its classification is in the allowlist (when one is given) and it is    *)
(* not Changed with |percent| < threshold nor Unchanged with threshold >=  *)
(* 0.000001.  With threshold 5 a change of 4.999 % is dropped and one of   *)
(* 5.001 % is kept; Added and Removed are kept at every threshold.         *)
C8_FilterRule ==
    call.fn = "filter_changes" =>
        LET out == Unwrap(ret)
            in == call.diff
            named(n) == {e \in Range(in) : e.name = n}
            allowed(e) == IsSome(call.params.change) =>
                            Unwrap(DiffTerm(e)).change \in Unwrap(call.params.change)
        IN  /\ Range(out) = {e \in Range(in) : C8_Passes(e, call.params)}
            /\ Cardinality(Range(out)) = Len(out)
            /\ \A i, j \in DOMAIN out : i < j => PlaceIn(in, out[i]) < PlaceIn(in, out[j])
            /\ call.params.threshold = DEFAULT_THRESHOLD =>
                /\ named("e_4999") \cap Range(out) = {}
                /\ \A e \in named("e_5001") \cup named("e_minus") : e \in Range(out) <=> allowed(e)
            /\ \A e \in named("e_added") \cup named("e_removed") : e \in Range(out) <=> allowed(e)
            /\ \A e \in named("e_failed_range") \cup named("e_failed_many") : e \in Range(out)
            /\ \A e \in named("e_unchanged") :
                e \in Range(out) <=> (allowed(e) /\ call.params.threshold \in {0, 5})

\* C8 witness: at threshold 5 the 4.999 % and the Unchanged entry go, the 5.001 % and the
\* Failed entry stay.
C8_Witness ==
    /\ call.fn = "filter_changes"
    /\ call.params.threshold = DEFAULT_THRESHOLD
    /\ IsNone(call.params.change)
    /\ Len(call.diff) = 3
    /\ call.diff[1].name = "e_4999"
    /\ call.diff[2].name = "e_5001"
    /\ call.diff[3].name = "e_failed_many"
    /\ Unwrap(ret) = <<call.diff[2], call.diff[3]>>

\* The classification order of C9.
C9_Rank(change) ==
    CASE change = "Unchanged" -> 1
      [] change = "Added" -> 2
      [] change = "Removed" -> 3
      [] change = "Changed" -> 4

\* The key of a Warning or Changed entry: classification, then percent * 1000 truncated.
C9_Key(entry) ==
    <<C9_Rank(Unwrap(DiffTerm(entry)).change)>> \o ScaledPercent(Unwrap(DiffTerm(entry)).percent)

C9_KeyLess(x, y) ==
    \/ x[1] < y[1]
    \/ x[1] = y[1] /\ x[2] < y[2]
    \/ x[1] = y[1] /\ x[2] = y[2] /\ x[3] < y[3]

(* C9: sort_changes returns the entries of the diff with the Failed ones   *)
(* first, then the Warning and Changed ones in ascending order of          *)
(* (classification, percent * 1000 truncated), with Unchanged < Added <    *)
(* Removed < Changed; a Warning and a Changed entry of equal TermChange    *)
(* have equal keys; entries of equal keys keep their input order.          *)
C9_SortOrder ==
    call.fn = "sort_changes" =>
        LET out == Unwrap(ret)
            in == call.diff
            failed(e) == e.change.kind = "Failed"
        IN  /\ Range(out) = Range(in)
            /\ Len(out) = Len(in)
            /\ \A i, j \in DOMAIN out :
                i < j =>
                    /\ failed(out[j]) => failed(out[i])
                    /\ (~failed(out[i]) /\ ~failed(out[j])) =>
                        /\ ~C9_KeyLess(C9_Key(out[j]), C9_Key(out[i]))
                        /\ C9_Key(out[i]) = C9_Key(out[j]) =>
                                PlaceIn(in, out[i]) < PlaceIn(in, out[j])
            /\ \A x, y \in Range(in) :
                (~failed(x) /\ ~failed(y) /\ DiffTerm(x) = DiffTerm(y)) =>
                    TermDiff_cmp(x.change, y.change) = 0

\* C9 witness: Changed, Removed and Failed come out as Failed, Removed, Changed.
C9_Witness ==
    /\ call.fn = "sort_changes"
    /\ Len(call.diff) = 3
    /\ call.diff[1].name = "e_5001"
    /\ call.diff[2].name = "e_removed"
    /\ call.diff[3].name = "e_failed_range"
    /\ Unwrap(ret) = <<call.diff[3], call.diff[2], call.diff[1]>>

\* C9 witness of the tie: the Warning and the Changed entry of 5.001 % and the entry of
\* 5.0014 % keep their input order.
C9_WitnessTie ==
    /\ call.fn = "sort_changes"
    /\ Len(call.diff) = 3
    /\ call.diff[1].name = "e_warning"
    /\ call.diff[2].name = "e_50014"
    /\ call.diff[3].name = "e_5001"
    /\ Unwrap(ret) = call.diff

----------------------------------------------------------------------------
(* SpecReset: reset, one git command at a time.  `git' is the log of the   *)
(* commands run in the repository, each with what became of it.            *)

Refnames == {"master", "v0.9.19", "vWrong"}

\* What stderr may hold when git exits with a failure status.
Stderrs == {"fatal: ambiguous argument", "fatal: unknown revision"}

(* Command::output(): the process could not be spawned (an io::Error), or  *)
(* it ran and left with a failure status and some stderr, or with success. *)
Outcomes ==
    {[kind |-> "spawn_error", stderr |-> ""], [kind |-> "success", stderr |-> ""]}
    \cup {[kind |-> "failure_status", stderr |-> e] : e \in Stderrs}

\* git fetch origin <refname>
GitFetch(refname) == [cmd |-> "fetch", remote |-> "origin", sep |-> " ", ref |-> refname]

\* git reset --hard origin/<refname>
GitResetOrigin(refname) ==
    [cmd |-> "reset --hard", remote |-> "origin", sep |-> "/", ref |-> refname]

\* git reset --hard <refname>
GitResetBare(refname) == [cmd |-> "reset --hard", remote |-> "", sep |-> "", ref |-> refname]

Ran(command, outcome) == [command |-> command, outcome |-> outcome]

\* format!("{}: {}", what, detail)
ResetErr(what, outcome) ==
    Err([msg |-> what,
         detail |-> IF outcome.kind = "spawn_error" THEN "io::Error" ELSE outcome.stderr])

\* Mutant of FetchResult: a failed fetch is ignored.
FetchResult_ignored(outcome) == None

\* What the fetch makes reset return: an error, or nothing yet.
FetchResult(outcome) ==
    IF outcome.kind = "success" THEN None
    ELSE Some(ResetErr("Failed to fetch branch", outcome))

\* What the reset to origin/<refname> makes reset return: Ok, or nothing yet.
ResetOriginResult(outcome) == IF outcome.kind = "success" THEN Some(Ok(0)) ELSE None

\* What the reset to <refname> makes reset return.
ResetBareResult(outcome) ==
    IF outcome.kind = "success" THEN Some(Ok(0))
    ELSE Some(ResetErr("Failed to reset branch", outcome))

\* Where reset goes on after a step that returned r, or nothing.
Goto(r, next) == IF IsSome(r) THEN "done" ELSE next

CallReset ==
    /\ call = Idle
    /\ \E refname \in Refnames, pull \in BOOLEAN :
        /\ call' = [fn |-> "reset", refname |-> refname, pull |-> pull]
        /\ pc' = IF pull THEN "fetch" ELSE "reset_origin"
        /\ git' = <<>>
        /\ UNCHANGED <<ret, ret2>>

ResetFetch ==
    /\ pc = "fetch"
    /\ \E outcome \in Outcomes :
        /\ git' = Append(git, Ran(GitFetch(call.refname), outcome))
        /\ ret' = FetchResult(outcome)
        /\ pc' = Goto(FetchResult(outcome), "reset_origin")
        /\ UNCHANGED <<call, ret2>>

ResetToOrigin ==
    /\ pc = "reset_origin"
    /\ \E outcome \in Outcomes :
        /\ git' = Append(git, Ran(GitResetOrigin(call.refname), outcome))
        /\ ret' = ResetOriginResult(outcome)
        /\ pc' = Goto(ResetOriginResult(outcome), "reset_bare")
        /\ UNCHANGED <<call, ret2>>

ResetToBare ==
    /\ pc = "reset_bare"
    /\ \E outcome \in Outcomes :
        /\ git' = Append(git, Ran(GitResetBare(call.refname), outcome))
        /\ ret' = ResetBareResult(outcome)
        /\ pc' = "done"
        /\ UNCHANGED <<call, ret2>>

NextReset == CallReset \/ ResetFetch \/ ResetToOrigin \/ ResetToBare

SpecReset == InitIdle /\ [][NextReset]_vars

\* The commands of the log that are resets, and those that failed.
C10_Resets == {i \in DOMAIN git : git[i].command.cmd = "reset --hard"}

C10_Failed(i) == git[i].outcome.kind # "success"

C10_FetchFailed == git # <<>> /\ git[1].command.cmd = "fetch" /\ C10_Failed(1)

(* C10: reset(path, refname, pull) runs, in this order: if pull, git fetch *)
(* origin <refname>, and returns an error without any reset when the fetch *)
(* fails; then git reset --hard origin/<refname>, and returns Ok without a *)
(* second reset when it succeeds; only when it fails git reset --hard      *)
(* <refname>.  It returns an error if and only if the fetch failed         *)
(* ("Failed to fetch branch") or both resets failed ("Failed to reset      *)
(* branch").                                                               *)
C10_ResetProtocol ==
    call.fn = "reset" =>
        LET fetches == IF call.pull THEN 1 ELSE 0
            origin == fetches + 1
            bare == fetches + 2
        IN  /\ Len(git) <= bare
            /\ \A i \in DOMAIN git :
                git[i].command = (IF i <= fetches THEN GitFetch(call.refname)
                                  ELSE IF i = origin THEN GitResetOrigin(call.refname)
                                  ELSE GitResetBare(call.refname))
            /\ C10_FetchFailed => C10_Resets = {} /\ pc = "done"
            /\ (origin \in DOMAIN git /\ ~C10_Failed(origin)) => Len(git) = origin /\ pc = "done"
            /\ bare \in DOMAIN git => C10_Failed(origin)
            /\ pc # "done" =>
                /\ IsNone(ret)
                /\ \A i \in DOMAIN git : i < bare /\ (i = origin => C10_Failed(i))
            /\ pc = "done" =>
                /\ IsSome(ret)
                /\ ~Unwrap(ret).ok <=>
                        (C10_FetchFailed \/ (C10_Resets = {origin, bare}
                                             /\ C10_Failed(origin) /\ C10_Failed(bare)))
                /\ (~Unwrap(ret).ok /\ C10_FetchFailed) =>
                        Unwrap(ret).err.msg = "Failed to fetch branch"
                /\ (~Unwrap(ret).ok /\ ~C10_FetchFailed) =>
                        Unwrap(ret).err.msg = "Failed to reset branch"

\* C10 witness: after a fetch, the reset to origin/vWrong fails and the reset to vWrong
\* fails too: the error is "Failed to reset branch".
C10_Witness ==
    /\ call.fn = "reset"
    /\ call.pull
    /\ call.refname = "vWrong"
    /\ pc = "done"
    /\ Len(git) = 3
    /\ git[1].outcome.kind = "success"
    /\ git[2].outcome.kind = "failure_status"
    /\ git[3].outcome.kind = "failure_status"
    /\ Unwrap(ret) = Err([msg |-> "Failed to reset branch", detail |-> git[3].outcome.stderr])

\* C10 witness of the fallback: the reset to origin/<refname> cannot be spawned and the
\* reset to <refname> succeeds.
C10_WitnessFallback ==
    /\ call.fn = "reset"
    /\ ~call.pull
    /\ pc = "done"
    /\ Len(git) = 2
    /\ git[1].outcome.kind = "spawn_error"
    /\ git[2].outcome.kind = "success"
    /\ Unwrap(ret).ok

----------------------------------------------------------------------------
(* SpecCommits: compare_commits, one step at a time.  The frame `call'     *)
(* holds the arguments and the locals paths, olds and news; `git' is the   *)
(* log of what was run on the repository: git commands, listings, parses   *)
(* and the final compare_files.                                            *)

\* Mutant of should_pull: offline is ignored.
should_pull_ignores_offline(params) == params.git_pull

\* CompareParams::should_pull
should_pull(params) == params.git_pull /\ ~params.offline

\* The file names of the weight directory, in path order.
FileOrder == <<"a.rs", "b.rs", "mod.rs">>

\* The content of a file at a revision: whether it parses, and to what.
FileContent(ok, extrinsics) == [ok |-> ok, extrinsics |-> extrinsics]

NoFile == [ok |-> FALSE, extrinsics |-> <<>>]

(* The working tree a successful reset to a revision leaves: master has    *)
(* a.rs, b.rs and mod.rs; v0.9.19 has a.rs and an unparsable b.rs; vWrong  *)
(* has a.rs alone.                                                         *)
TreeNames(refname) ==
    CASE refname = "master" -> {"a.rs", "b.rs", "mod.rs"}
      [] refname = "v0.9.19" -> {"a.rs", "b.rs"}
      [] OTHER -> {"a.rs"}

TreeFile(refname, file) ==
    CASE refname = "master" /\ file = "a.rs" -> FileContent(TRUE, <<ExtBalances>>)
      [] refname = "master" /\ file = "b.rs" -> FileContent(TRUE, <<ExtTransferA, ExtVoteWrites>>)
      [] refname = "v0.9.19" /\ file = "a.rs" -> FileContent(TRUE, <<ExtBalances, ExtAB>>)
      [] refname = "vWrong" /\ file = "a.rs" -> FileContent(TRUE, <<ExtVote17>>)
      [] OTHER -> NoFile

(* One glob of a path pattern, by what glob::glob answers: "invalid" (the  *)
(* pattern is rejected), "unreadable" (an entry cannot be read while       *)
(* iterating) or "ok" with the names it matches.                           *)
Glob(kind, matches) == [kind |-> kind, matches |-> matches]

\* A path pattern: its comma-separated globs, and whether its text contains "..".
PathPattern(dotdot, globs) == [dotdot |-> dotdot, globs |-> globs]

PathErr(msg) == Err([msg |-> msg, detail |-> ""])

\* The loop of list_files over the globs, from the i-th on.
RECURSIVE ListLoop(_, _, _, _, _)
RECURSIVE ExtendPaths(_, _, _, _, _)
ExtendPaths(names, globs, i, max_files, paths) ==
    IF Len(paths) > max_files THEN PathErr("Found too many files")
    ELSE ListLoop(names, globs, i + 1, max_files, paths)

ListLoop(names, globs, i, max_files, paths) ==
    IF i > Len(globs)
    THEN Ok(SelectSeq(FileOrder, LAMBDA f : f \in Range(paths)))
    ELSE IF globs[i].kind = "invalid" THEN PathErr("Invalid path pattern")
    ELSE IF globs[i].kind = "unreadable" THEN PathErr("Path pattern error")
    ELSE ExtendPaths(names, globs, i, max_files,
                     paths \o SelectSeq(FileOrder,
                                        LAMBDA f : f \in globs[i].matches \cap names
                                                   /\ f # "mod.rs"))

\* list_files, on the names of the working tree
list_files(names, regex, max_files) == ListLoop(names, regex.globs, 1, max_files, <<>>)

\* The records of one file followed by those of the rest, unless the rest failed.
ParsedRest(extrinsics, rest) == IF rest.ok THEN Ok(extrinsics \o rest.v) ELSE rest

\* parse_files_in_repo: the records of all files, or the error of the first that fails.
RECURSIVE parse_files_in_repo(_, _)
parse_files_in_repo(refname, paths) ==
    IF paths = <<>> THEN Ok(<<>>)
    ELSE IF ~TreeFile(refname, Head(paths)).ok
    THEN Err([msg |-> "parse error", detail |-> Head(paths)])
    ELSE ParsedRest(TreeFile(refname, Head(paths)).extrinsics,
                    parse_files_in_repo(refname, Tail(paths)))

\* try_parse_files_in_repo: the records of the files that parse.
RECURSIVE try_parse_files_in_repo(_, _)
try_parse_files_in_repo(refname, paths) ==
    IF paths = <<>> THEN <<>>
    ELSE (IF TreeFile(refname, Head(paths)).ok THEN TreeFile(refname, Head(paths)).extrinsics
          ELSE <<>>) \o try_parse_files_in_repo(refname, Tail(paths))

\* One more command of a run of reset, unless the run has returned.
ThenRun(run, command, outcome, result) ==
    IF IsSome(run.ret) THEN run
    ELSE [log |-> Append(run.log, Ran(command, outcome)), ret |-> result]

\* A whole run of reset under the outcomes o1, o2, o3 of its commands.
ResetRun(refname, pull, o1, o2, o3) ==
    ThenRun(ThenRun(IF pull THEN ThenRun([log |-> <<>>, ret |-> None], GitFetch(refname), o1,
                                         FetchResult(o1))
                    ELSE [log |-> <<>>, ret |-> None],
                    GitResetOrigin(refname), o2, ResetOriginResult(o2)),
            GitResetBare(refname), o3, ResetBareResult(o3))

ResetRuns(refname, pull) ==
    {ResetRun(refname, pull, o1, o2, o3) : o1 \in Outcomes, o2 \in Outcomes, o3 \in Outcomes}

\* CompareParams with all its fields
CompareParamsOf(method, unit, ignore_errors, git_pull, offline) ==
    [method |-> method, unit |-> unit, ignore_errors |-> ignore_errors, git_pull |-> git_pull,
     offline |-> offline]

\* A step that is no git command, as an entry of the log.
RanStep(step, refname, ok) ==
    Ran([cmd |-> step, remote |-> "", sep |-> "", ref |-> refname],
        [kind |-> IF ok THEN "success" ELSE "failure", stderr |-> ""])

\* The revision of the side compare_commits is at.
SideRef == IF call.side = "old" THEN call.old ELSE call.new

\* format!("{:?}", err).into()
DebugErr(r) == Err([msg |-> r.err.msg, detail |-> r.err.detail, quoted |-> TRUE])

AllFiles == Range(FileOrder)

DrawnPatterns ==
    {PathPattern(FALSE, <<Glob("ok", AllFiles)>>),
     PathPattern(FALSE, <<Glob("ok", {"a.rs"}), Glob("ok", {"a.rs", "b.rs"})>>),
     PathPattern(FALSE, <<Glob("invalid", {})>>),
     PathPattern(FALSE, <<Glob("ok", {"a.rs"}), Glob("unreadable", {})>>),
     PathPattern(TRUE, <<Glob("ok", AllFiles)>>)}

DrawnMaxFiles == {1, 2}

CallCompareCommits ==
    /\ call = Idle
    /\ \E old \in Refnames, new \in Refnames, unit \in Dimensions, ignore_errors \in BOOLEAN,
          git_pull \in BOOLEAN, offline \in BOOLEAN, path_pattern \in DrawnPatterns,
          max_files \in DrawnMaxFiles :
        /\ call' = [fn |-> "compare_commits", old |-> old, new |-> new,
                    params |-> CompareParamsOf("Base", unit, ignore_errors, git_pull, offline),
                    filter |-> FilterParams(DEFAULT_THRESHOLD, None, None, None),
                    path_pattern |-> path_pattern, max_files |-> max_files,
                    side |-> "old", paths |-> <<>>, olds |-> <<>>, news |-> <<>>]
        /\ pc' = "check_pattern"
        /\ git' = <<>>
        /\ UNCHANGED <<ret, ret2>>

\* if path_pattern.contains("..")
CommitsCheckPattern ==
    /\ pc = "check_pattern"
    /\ IF call.path_pattern.dotdot
       THEN ret' = Some(PathErr("Path pattern cannot contain '..'")) /\ pc' = "done"
       ELSE ret' = ret /\ pc' = "reset"
    /\ UNCHANGED <<call, ret2, git>>

\* reset(repo, old or new, params.should_pull())
CommitsReset ==
    /\ pc = "reset"
    /\ \E run \in ResetRuns(SideRef, should_pull(call.params)) :
        /\ git' = git \o run.log
        /\ IF Unwrap(run.ret).ok
           THEN ret' = ret /\ pc' = "list"
           ELSE ret' = Some(DebugErr(Unwrap(run.ret))) /\ pc' = "done"
    /\ UNCHANGED <<call, ret2>>

\* let paths = list_files(repo, path_pattern, max_files)?
CommitsListFiles ==
    /\ pc = "list"
    /\ LET r == list_files(TreeNames(SideRef), call.path_pattern, call.max_files)
       IN  /\ git' = Append(git, RanStep("list_files", SideRef, r.ok))
           /\ IF r.ok
              THEN call' = [call EXCEPT !.paths = r.v] /\ ret' = ret /\ pc' = "parse"
              ELSE call' = call /\ ret' = Some(r) /\ pc' = "done"
    /\ UNCHANGED ret2

\* The parse of one side stored in the frame; after the new side comes the compare.
CommitsParsed(extrinsics) ==
    /\ call' = IF call.side = "old"
               THEN [call EXCEPT !.olds = extrinsics, !.side = "new"]
               ELSE [call EXCEPT !.news = extrinsics]
    /\ pc' = IF call.side = "old" THEN "reset" ELSE "compare"
    /\ ret' = ret

\* try_parse_files_in_repo if params.ignore_errors, else parse_files_in_repo(..)?
CommitsParse ==
    /\ pc = "parse"
    /\ IF call.params.ignore_errors
       THEN /\ git' = Append(git, RanStep("try_parse_files_in_repo", SideRef, TRUE))
            /\ CommitsParsed(try_parse_files_in_repo(SideRef, call.paths))
       ELSE LET r == parse_files_in_repo(SideRef, call.paths)
            IN  /\ git' = Append(git, RanStep("parse_files_in_repo", SideRef, r.ok))
                /\ IF r.ok THEN CommitsParsed(r.v)
                   ELSE call' = call /\ ret' = Some(r) /\ pc' = "done"
    /\ UNCHANGED ret2

\* compare_files(olds, news, params, filter)
CommitsCompareFiles ==
    /\ pc = "compare"
    /\ \E seed \in Seeds :
        ret' = Some(compare_files(call.olds, call.news, call.params, call.filter, seed))
    /\ git' = Append(git, RanStep("compare_files", call.new, TRUE))
    /\ pc' = "done"
    /\ UNCHANGED <<call, ret2>>

NextCommits ==
    \/ CallCompareCommits
    \/ CommitsCheckPattern
    \/ CommitsReset
    \/ CommitsListFiles
    \/ CommitsParse
    \/ CommitsCompareFiles

SpecCommits == InitIdle /\ [][NextCommits]_vars

\* The kind of step of an entry of the log.
C11_Kind(e) ==
    CASE e.command.cmd \in {"fetch", "reset --hard"} -> "git"
      [] e.command.cmd = "list_files" -> "list"
      [] e.command.cmd \in {"parse_files_in_repo", "try_parse_files_in_repo"} -> "parse"
      [] OTHER -> "compare"

\* The kinds of a log in order, a run of git commands counted once.
RECURSIVE C11_Phases(_)
C11_Phases(log) ==
    IF log = <<>> THEN <<>>
    ELSE LET rest == C11_Phases(Tail(log))
             k == C11_Kind(Head(log))
         IN  IF k = "git" /\ rest # <<>> /\ Head(rest) = "git" THEN rest ELSE <<k>> \o rest

C11_Order == <<"git", "list", "parse", "git", "list", "parse", "compare">>

C11_Ok(i) == git[i].outcome.kind = "success"

\* Whether the entry before the i-th is of the kind k and succeeded.
C11_After(i, k) == i > 1 /\ C11_Kind(git[i - 1]) = k /\ C11_Ok(i - 1)

\* The i-th entry begins the work on a side: nothing, or a parse, is before it.
C11_Begins(i) == i = 1 \/ C11_After(i, "parse")

(* C11: compare_commits rejects a path_pattern that contains ".." before   *)
(* anything is run; otherwise it runs reset to old, list_files, the parse  *)
(* of old, reset to new, list_files, the parse of new and compare_files in *)
(* this order, each step only after the one before succeeded; a reset,    *)
(* listing or parse (without ignore_errors) that fails is the last step    *)
(* and the run returns an error; a fetch is run only when git_pull is set  *)
(* and offline is not.                                                     *)
C11_CommitsOrder ==
    call.fn = "compare_commits" =>
        LET pull == call.params.git_pull /\ ~call.params.offline
            phases == C11_Phases(git)
            refAt(i) == IF \E j \in 1..(i - 1) : C11_Kind(git[j]) = "parse"
                        THEN call.new ELSE call.old
            cmd(i) == git[i].command
        IN  /\ call.path_pattern.dotdot => git = <<>>
            /\ (call.path_pattern.dotdot /\ pc # "check_pattern") =>
                    pc = "done" /\ ~Unwrap(ret).ok
            /\ Len(phases) <= Len(C11_Order)
            /\ phases = SubSeq(C11_Order, 1, Len(phases))
            /\ \A i \in DOMAIN git :
                /\ C11_Kind(git[i]) # "compare" => cmd(i).ref = refAt(i)
                /\ cmd(i) = GitFetch(refAt(i)) => pull /\ C11_Begins(i)
                /\ cmd(i) = GitResetOrigin(refAt(i)) =>
                        IF pull THEN i > 1 /\ cmd(i - 1).cmd = "fetch" /\ C11_Ok(i - 1)
                        ELSE C11_Begins(i)
                /\ cmd(i) = GitResetBare(refAt(i)) =>
                        i > 1 /\ cmd(i - 1) = GitResetOrigin(refAt(i)) /\ ~C11_Ok(i - 1)
                /\ C11_Kind(git[i]) = "git" =>
                        cmd(i) \in {GitFetch(refAt(i)), GitResetOrigin(refAt(i)),
                                    GitResetBare(refAt(i))}
                /\ C11_Kind(git[i]) = "list" => C11_After(i, "git")
                /\ C11_Kind(git[i]) = "parse" =>
                        /\ C11_After(i, "list")
                        /\ cmd(i).cmd = "try_parse_files_in_repo" <=> call.params.ignore_errors
                        /\ call.params.ignore_errors => C11_Ok(i)
                /\ C11_Kind(git[i]) = "compare" => C11_After(i, "parse")
                /\ (~C11_Ok(i) /\ cmd(i) # GitResetOrigin(refAt(i))) =>
                        i = Len(git) /\ pc = "done" /\ ~Unwrap(ret).ok
            /\ pc = "done" =>
                /\ IsSome(ret)
                /\ Unwrap(ret).ok => phases = C11_Order
                /\ ~Unwrap(ret).ok => call.path_pattern.dotdot \/ ~C11_Ok(Len(git))
            /\ pc # "done" => IsNone(ret) /\ Len(phases) < Len(C11_Order)

\* C11 witness: with a fetch on each side, old master and new vWrong are compared.
C11_Witness ==
    /\ call.fn = "compare_commits"
    /\ pc = "done"
    /\ Unwrap(ret).ok
    /\ call.old = "master"
    /\ call.new = "vWrong"
    /\ git[1].command = GitFetch("master")
    /\ C11_Phases(git) = C11_Order
    /\ Len(Unwrap(ret).v) = 4

\* C11 witness of an abort: the parse of old fails and nothing of new is run.
C11_WitnessAbort ==
    /\ call.fn = "compare_commits"
    /\ pc = "done"
    /\ ~Unwrap(ret).ok
    /\ call.old = "v0.9.19"
    /\ call.new = "master"
    /\ C11_Phases(git) = <<"git", "list", "parse">>

----------------------------------------------------------------------------
(* SpecSanity: sanity_check_term on terms of known READ and WRITE factors, *)
(* and compare_files on extrinsics with such terms.                        *)

DrawnFactors == {0, 200, 1000, 1001, 1500}

\* reads * READ + writes * WRITE
FactorTerm(reads, writes) ==
    Add(Mul(Scalar(reads), Var(STORAGE_READ_VAR)), Mul(Scalar(writes), Var(STORAGE_WRITE_VAR)))

\* The terms drawn, each with its largest READ and WRITE factor (0: the operation is absent).
DrawnFactorTerms ==
    {[term |-> FactorTerm(r, w), reads |-> r, writes |-> w] :
        r \in DrawnFactors, w \in DrawnFactors}
    \cup {[term |-> Add(Scalar(7), Mul(Var(STORAGE_WRITE_VAR), Scalar(w))),
           reads |-> 0, writes |-> w] : w \in DrawnFactors}
    \cup {[term |-> Add(FactorTerm(r, 200), FactorTerm(200, w)),
           reads |-> Max2(r, 200), writes |-> Max2(w, 200)] :
            r \in DrawnFactors, w \in DrawnFactors}

\* system::transfer with 2 WRITEs in its time term and the given factors in its proof term
ExtFactors(reads, writes) ==
    Extrinsic("system", "transfer",
              Chromatic(Add(Scalar(5 + reads), Mul(Scalar(2), Var(STORAGE_WRITE_VAR))),
                        Add(Scalar(3), FactorTerm(reads, writes))),
              None)

DrawnFactorFiles == {<<>>, <<ExtFactors(200, 1500)>>, <<ExtFactors(1500, 200)>>,
                     <<ExtFactors(200, 200)>>, <<ExtFactors(1001, 1001)>>}

CallSanityCheckTerm ==
    /\ call = Idle
    /\ \E drawn \in DrawnFactorTerms :
        /\ call' = [fn |-> "sanity_check_term", term |-> drawn.term, reads |-> drawn.reads,
                    writes |-> drawn.writes]
        /\ ret' = Some(sanity_check_term(drawn.term))
        /\ UNCHANGED <<ret2, pc, git>>

CallCompareFilesSanity ==
    /\ call = Idle
    /\ \E olds \in DrawnFactorFiles, news \in DrawnFactorFiles, unit \in Dimensions,
          method \in {"Base", "GuessWorst"} :
        /\ call' = [fn |-> "compare_files", olds |-> olds, news |-> news,
                    params |-> CompareParams(method, unit),
                    filter |-> FilterParams(DEFAULT_THRESHOLD, None, None, None), seed |-> 0]
        /\ ret' = Some(compare_files(olds, news, CompareParams(method, unit),
                                     FilterParams(DEFAULT_THRESHOLD, None, None, None), 0))
        /\ UNCHANGED <<ret2, pc, git>>

NextSanity == CallSanityCheckTerm \/ CallCompareFilesSanity

SpecSanity == InitIdle /\ [][NextSanity]_vars

\* The term compare_files checks for an identity: that of the new record, else of the old.
C12_Checked(id) ==
    Unwrap(OptOr(C6_Found(call.news, id), C6_Found(call.olds, id))).term

\* What C12 says of one entry, given the result of its comparison and of its sanity check.
C12_Entry(entry, one, sane) ==
    /\ entry.change.kind = "Warning" <=> (one.ok /\ ~sane.ok)
    /\ entry.change.kind = "Changed" <=> (one.ok /\ sane.ok)
    /\ one.ok => entry.change.change = Some(one.v)
    /\ entry.change.kind = "Warning" =>
        /\ entry.change.msg.kind = sane.err.kind
        /\ entry.change.msg.n = sane.err.n
        /\ entry.change.msg.pallet = entry.file
        /\ entry.change.msg.extrinsic = entry.name

C12_EntryOf(entry) ==
    C12_Entry(entry,
              compare_extrinsics(C6_Found(call.olds, <<entry.file, entry.name>>),
                                 C6_Found(call.news, <<entry.file, entry.name>>),
                                 call.params, call.seed),
              sanity_check_term(C12_Checked(<<entry.file, entry.name>>)))

(* C12: sanity_check_term fails exactly when the largest factor of READ or *)
(* of WRITE in the term is above 1000, and the message names the larger of *)
(* the two with its factor (1500 WRITEs for WRITE 1500 and READ 200); in   *)
(* compare_files the term checked is that of the new record when there is  *)
(* one, else of the old, and an entry whose comparison succeeded is a      *)
(* Warning exactly when the check fails, with the TermChange the           *)
(* comparison returned.                                                    *)
C12_SanityCheck ==
    /\ call.fn = "sanity_check_term" =>
        LET r == Unwrap(ret)
        IN  /\ r.ok <=> (call.reads <= 1000 /\ call.writes <= 1000)
            /\ ~r.ok =>
                /\ r.err.kind = (IF call.reads > call.writes THEN "READs" ELSE "WRITEs")
                /\ r.err.n = (IF call.reads > call.writes THEN call.reads ELSE call.writes)
            /\ (call.reads = 200 /\ call.writes = 1500) =>
                    ~r.ok /\ r.err.kind = "WRITEs" /\ r.err.n = 1500
    /\ call.fn = "compare_files" =>
        /\ Unwrap(ret).ok
        /\ \A i \in DOMAIN Unwrap(ret).v : C12_EntryOf(Unwrap(ret).v[i])

\* C12 witness: WRITE factor 1500 and READ factor 200 give "1500 WRITEs".
C12_Witness ==
    /\ call.fn = "sanity_check_term"
    /\ call.reads = 200
    /\ call.writes = 1500
    /\ ~Unwrap(ret).ok
    /\ Unwrap(ret).err.kind = "WRITEs"
    /\ Unwrap(ret).err.n = 1500

\* C12 witness in compare_files: the old record has 1500 READs, the new one 1500 WRITEs: the
\* entry is a Warning of 1500 WRITEs with a Changed TermChange.
C12_WitnessFiles ==
    /\ call.fn = "compare_files"
    /\ call.params.unit = "Proof"
    /\ call.olds = <<ExtFactors(1500, 200)>>
    /\ call.news = <<ExtFactors(200, 1500)>>
    /\ Unwrap(ret).v[1].change.kind = "Warning"
    /\ Unwrap(ret).v[1].change.msg.kind = "WRITEs"
    /\ Unwrap(Unwrap(ret).v[1].change.change).change = "Changed"

\* C12 witness of the side checked: the old record has 1500 READs and the new one 200 of
\* each, and the entry is no Warning.
C12_WitnessNewSide ==
    /\ call.fn = "compare_files"
    /\ call.params.unit = "Proof"
    /\ call.olds = <<ExtFactors(1500, 200)>>
    /\ call.news = <<ExtFactors(200, 200)>>
    /\ Unwrap(ret).v[1].change.kind = "Changed"

----------------------------------------------------------------------------
(* The result compare_extrinsics picks and the consistency of its corners, *)
(* under SpecCompare.                                                      *)

\* The scopes extend_scoped_components returns for the call of compare_extrinsics.
CornerScopes ==
    extend_scoped_components(OptDimensionTerm(call.old, call.params.unit),
                             OptDimensionTerm(call.new, call.params.unit),
                             call.params.method, BaseScope(call.params.unit), call.seed)

\* The result of compare_terms at a scope, for the call of compare_extrinsics.
CornerResult(scope) ==
    compare_terms(OptTerm(OptDimensionTerm(call.old, call.params.unit)),
                  OptTerm(OptDimensionTerm(call.new, call.params.unit)),
                  call.params.method, scope)

\* The key of the ordering of C13: classification in enum order, then percent * 1000 truncated.
C13_Key(change) == <<C9_Rank(change.change)>> \o ScaledPercent(change.percent)

\* What C13 says of the result picked among the results of the corner scopes, in order.
C13_Picked(picked, scopes) ==
    /\ \E i \in DOMAIN scopes : picked = CornerResult(scopes[i]).v
    /\ IF \A i \in DOMAIN scopes : CornerResult(scopes[i]).v.change \in {"Added", "Removed"}
       THEN picked = CornerResult(scopes[1]).v
       ELSE \A i \in DOMAIN scopes :
                ~C9_KeyLess(C13_Key(picked), C13_Key(CornerResult(scopes[i]).v))

(* C13: compare_extrinsics returns one of the TermChange values computed   *)
(* at the sorted corner scopes: that of the first scope when every corner  *)
(* is Added or Removed, and otherwise one that no other corner exceeds in  *)
(* (classification, percent * 1000 truncated).                             *)
C13_PicksMaximum ==
    (call.fn = "compare_extrinsics" /\ Unwrap(ret).ok) =>
        C13_Picked(Unwrap(ret).v, CornerScopes.v)

\* C13 witness: under GuessWorst four corners are evaluated and the one picked binds a to 100,
\* not the first corner.
C13_Witness ==
    /\ call.fn = "compare_extrinsics"
    /\ call.params.method = "GuessWorst"
    /\ Unwrap(ret).ok
    /\ Unwrap(ret).evaluated = 8
    /\ Unwrap(ret).v.change = "Changed"
    /\ Unwrap(ret).v.scope["a"] = 100

\* C13 witness of a removed formula: two corners, the first returned.
C13_WitnessRemoved ==
    /\ call.fn = "compare_extrinsics"
    /\ IsNone(call.new)
    /\ Unwrap(ret).ok
    /\ Unwrap(ret).evaluated = 2
    /\ Unwrap(ret).v.change = "Removed"
    /\ Unwrap(ret).v.scope["a"] = 0

\* The classifications of the corner scopes, in order.
CornerChanges(scopes) == {CornerResult(scopes[i]).v.change : i \in DOMAIN scopes}

\* What C14 says of the scopes extend_scoped_components returned for a pair.
C14_Scopes(old, new, scopes) ==
    /\ Len(scopes) >= 1
    /\ \A i \in DOMAIN scopes :
           /\ FreeVarsOf(old, scopes[i]) = {}
           /\ FreeVarsOf(new, scopes[i]) = {}

\* All classifications are in {Changed, Unchanged} or all are in {Added, Removed}.
C14_Homogeneous(changes) ==
    \/ changes \subseteq {"Changed", "Unchanged"}
    \/ changes \subseteq {"Added", "Removed"}

\* What C14 says of a call of compare_extrinsics whose scopes were built.
C14_Corners(old, new, scopes) ==
    /\ C14_Scopes(old, new, scopes)
    /\ \A i \in DOMAIN scopes : CornerResult(scopes[i]).ok
    /\ C14_Homogeneous(CornerChanges(scopes))

(* C14: no unreachable!, assert! or unwrap of compare_extrinsics fails.    *)
(* For every pair with a side present, every method, both dimensions and   *)
(* every range (min > max included): extend_scoped_components, when it     *)
(* succeeds, returns at least one scope, every scope binds every free      *)
(* variable of both terms, and the classifications of the corners are all  *)
(* in {Changed, Unchanged} or all in {Added, Removed}.                     *)
C14_NoInternalFailure ==
    /\ call.fn = "extend_scoped_components" =>
           (Unwrap(ret).ok => C14_Scopes(call.a, call.b, Unwrap(ret).v))
    /\ call.fn = "compare_extrinsics" =>
           /\ ~IsPanic(Unwrap(ret))
           /\ CornerScopes.ok =>
                  C14_Corners(OptDimensionTerm(call.old, call.params.unit),
                              OptDimensionTerm(call.new, call.params.unit), CornerScopes.v)

\* C14 witness: a range with min > max on the old side, four corners of two different terms,
\* one of them evaluating the old term to 0, and a result.
C14_Witness ==
    /\ call.fn = "compare_extrinsics"
    /\ IsSome(call.old) /\ IsSome(call.new)
    /\ Unwrap(call.old).term # Unwrap(call.new).term
    /\ IsSome(Unwrap(call.old).comp_ranges)
    /\ \E c \in DOMAIN Unwrap(Unwrap(call.old).comp_ranges) :
           /\ IsSome(Unwrap(Unwrap(call.old).comp_ranges)[c])
           /\ Unwrap(Unwrap(Unwrap(call.old).comp_ranges)[c]).min
                  > Unwrap(Unwrap(Unwrap(call.old).comp_ranges)[c]).max
    /\ Unwrap(ret).ok
    /\ Unwrap(ret).evaluated >= 4

\* C14 witness of the Proof dimension: the old term is 0 at a corner and positive at another.
C14_WitnessZero ==
    /\ call.fn = "compare_extrinsics"
    /\ call.params.unit = "Proof"
    /\ Unwrap(ret).ok
    /\ Unwrap(ret).v.change = "Changed"
    /\ \E i \in DOMAIN CornerScopes.v : CornerResult(CornerScopes.v[i]).v.old_v = Some(0)
    /\ \E i \in DOMAIN CornerScopes.v : CornerResult(CornerScopes.v[i]).v.old_v # Some(0)

----------------------------------------------------------------------------
(* The comparison of sort_changes as an ordering, under SpecFilterSort.    *)

\* A diff with its entries in the opposite order.
C15_Reversed(diff) == [i \in 1..Len(diff) |-> diff[Len(diff) + 1 - i]]

\* Two entries that are not equal under TermDiff::cmp come out in the same order from both lists.
C15_SameOrder(out, other, x, y) ==
    TermDiff_cmp(x.change, y.change) # 0 =>
        (PlaceIn(out, x) < PlaceIn(out, y) <=> PlaceIn(other, x) < PlaceIn(other, y))

(* C15: TermDiff::cmp is a consistent total preorder on the entries of a   *)
(* diff: cmp(a, b) is the reverse of cmp(b, a) (two Failed entries are     *)
(* Equal both ways), it is transitive, and so the sorted diff does not     *)
(* depend on the input order of entries that are not equal under it.       *)
C15_ConsistentPreorder ==
    call.fn = "sort_changes" =>
        /\ \A x, y \in Range(call.diff) :
               x # y => TermDiff_cmp(x.change, y.change) = 0 - TermDiff_cmp(y.change, x.change)
        /\ \A x, y, z \in Range(call.diff) :
               (TermDiff_cmp(x.change, y.change) <= 0 /\ TermDiff_cmp(y.change, z.change) <= 0)
                   => TermDiff_cmp(x.change, z.change) <= 0
        /\ \A x, y \in Range(call.diff) :
               C15_SameOrder(Unwrap(ret), sort_changes(C15_Reversed(call.diff), call.impl), x, y)

\* Two different Failed entries are sorted, and come out in an order that depends on the input's.
C15_FailedPair ==
    /\ call.fn = "sort_changes"
    /\ Len(call.diff) = 2
    /\ call.diff[1] # call.diff[2]
    /\ call.diff[1].change.kind = "Failed" /\ call.diff[2].change.kind = "Failed"
    /\ TermDiff_cmp(call.diff[1].change, call.diff[2].change) = -1
    /\ TermDiff_cmp(call.diff[2].change, call.diff[1].change) = -1
    /\ Unwrap(ret) # sort_changes(C15_Reversed(call.diff), call.impl)
====
